---- MODULE Spec2Model ----
(***************************************************************************)
(* Host-authoritative replication core of reactome-sim:                    *)
(*   - the method decorators  (src/src/network/decorators.ts)              *)
(*   - the message bus NetBus (src/unnamed/part_005, net-bus.ts)            *)
(*   - the NetComponent state channels (src/unnamed/part_006)              *)
(* The transport (transport.ts) is an external collaborator: it is         *)
(* modelled from its contract as per-pair queues of serialized envelopes.  *)
(***************************************************************************)
EXTENDS Integers, Sequences, FiniteSets, TLC

(* ------------------------------ bounds -------------------------------- *)
MaxCalls == 2        \* decorated-method calls issued in one behaviour
MaxWrites == 3       \* proxy mutations that schedule a pass, in one behaviour
MaxInbound == 3      \* envelopes arriving from outside the send paths, in one behaviour

(* ------------------------------ universe ------------------------------ *)
Host == "h"
Peers == {"h", "r1", "r2"}
Replicas == Peers \ {Host}
Addrs == {"a1"}
Channels == {"hp"}
Keys == {"value", "extra"}
Writes == {<<"value", 80>>, <<"value", 100>>, <<"extra", 100>>}
ArgVals == {1, 2}
RunOnServerMethods == {"heal"}
MulticastMethods == {"emote"}
PatchMethod == "_applyStatePatch"
InitialValues == { << <<"value", 100>> >>, << <<"value", 100>>, <<"extra", 100>> >> }

Insts == Peers \X Addrs
Pairs == Peers \X Peers

VARIABLES
    peerSet,      \* transport.peers(): the peers currently in the session
    classMeta,    \* the classes defined so far and their constructors' [META_KEY] arrays
    net,          \* transport: net[<<from, to>>] = envelopes handed over, not yet received
    handlers,     \* NetBus.handlers of each peer: target key -> bound handler
    stateObjs,    \* NetComponent.__stateObjs of each instance: channel -> object
    revSend,      \* NetComponent.__revSend
    revRecv,      \* NetComponent.__revRecv
    lastSynced,   \* NetComponent.__lastSynced
    microtasks,   \* per peer: the microtask queue (pending syncState(channel) callbacks)
    phase,        \* per peer: "idle" | "sync" (user code running) | "drain" (microtasks)
    execLog,      \* per peer: the decorated-method bodies executed, in order
    hookLog,      \* per instance: onStatePatched(channel) invocations, in order
    calls,        \* history: the decorated-method calls issued, in order
    tick,         \* history of the Authority's current synchronous block
    seen,         \* history: per instance, the patches dispatched to _applyStatePatch
    initial,      \* history: per instance, the initial value each channel was created with
    handles,      \* history: per instance and channel, the kinds of object stateChannel returned
    dropped,      \* history: per peer, the inbound envelopes dispatched to no handler
    lastOp        \* history: the last operation that may fail or do nothing, its outcome

busVars == <<handlers, execLog, calls, dropped>>
chanVars == <<stateObjs, revSend, revRecv, lastSynced, hookLog, seen, initial, handles>>
loopVars == <<microtasks, phase, tick>>
vars == <<peerSet, classMeta, net, handlers, stateObjs, revSend, revRecv, lastSynced,
          microtasks, phase, execLog, hookLog, calls, tick, seen, initial, handles,
          dropped, lastOp>>

(* --------------------------- Map<K, V> helpers ------------------------ *)
EmptyMap == [x \in {} |-> 0]
MapHas(m, k) == k \in DOMAIN m
MapGetOr(m, k, d) == IF k \in DOMAIN m THEN m[k] ELSE d
MapSet(m, k, v) == [x \in (DOMAIN m) \cup {k} |-> IF x = k THEN v ELSE m[x]]

(* ----------------------- JavaScript plain objects --------------------- *)
(* An object is its own-property list in insertion order: <<key, value>>s. *)
ObjKeys(kv) == {kv[i][1] : i \in 1..Len(kv)}
HasKey(kv, k) == k \in ObjKeys(kv)
ReflectGet(kv, k) == kv[CHOOSE i \in 1..Len(kv) : kv[i][1] = k][2]
ReflectSet(kv, k, v) ==
    IF HasKey(kv, k)
    THEN [i \in 1..Len(kv) |-> IF kv[i][1] = k THEN <<k, v>> ELSE kv[i]]
    ELSE Append(kv, <<k, v>>)
ReflectDeleteProperty(kv, k) == SelectSeq(kv, LAMBDA e : e[1] # k)
AsMap(kv) == [k \in ObjKeys(kv) |-> ReflectGet(kv, k)]

(* A property value is a number, or a reference (FirstRef and above) to a  *)
(* nested value: a plain object, an array (its elements under the property  *)
(* names "0", "1", ...) or a Map (its entries).  Nested values form a tree, *)
(* so a reference stands for the value it refers to.                        *)
FirstRef == 1000
NestedValues ==
    << [t |-> "obj", kv |-> << <<"x", 1>> >>],
       [t |-> "obj", kv |-> << <<"x", 2>> >>],
       [t |-> "obj", kv |-> << <<"in", 1001>> >>],
       [t |-> "obj", kv |-> << <<"in", 1002>> >>],
       [t |-> "arr", kv |-> <<>>],
       [t |-> "arr", kv |-> << <<"0", 1>> >>],
       [t |-> "map", kv |-> <<>>],
       [t |-> "map", kv |-> << <<"k", 1>> >>],
       [t |-> "obj", kv |-> <<>>] >>
IsRef(v) == v >= FirstRef
Deref(v) == NestedValues[v - FirstRef]
HasRefTo(d) == \E j \in 1..Len(NestedValues) : NestedValues[j] = d
RefTo(d) == FirstRef + (CHOOSE j \in 1..Len(NestedValues) : NestedValues[j] = d)

(* JSON.stringify of a value: numbers, plain objects and arrays keep their  *)
(* content; a Map (or Set) has no enumerable own property and yields {}.    *)
RECURSIVE JsonValue(_)
JsonValue(v) ==
    IF ~IsRef(v) THEN v
    ELSE IF Deref(v).t = "map" THEN RefTo([t |-> "obj", kv |-> <<>>])
    ELSE RefTo([t |-> Deref(v).t,
                kv |-> [j \in 1..Len(Deref(v).kv) |->
                          <<Deref(v).kv[j][1], JsonValue(Deref(v).kv[j][2])>>]])

(* JSON.stringify of an object: the keys and values in property order. *)
RECURSIVE JsonStringify(_)
JsonStringify(kv) ==
    IF kv = <<>> THEN <<>>
    ELSE <<Head(kv)[1], JsonValue(Head(kv)[2])>> \o JsonStringify(Tail(kv))
(* JSON.parse of such a string. *)
JsonParse(s) == [i \in 1..(Len(s) \div 2) |-> <<s[2 * i - 1], s[2 * i]>>]

(* obj[k] = v and delete obj[k] on a plain object in strict-mode code: a   *)
(* sealed object refuses a new property and the removal of one, with a     *)
(* TypeError; its existing properties stay writable.                        *)
OrdinarySet(o, k, v) ==
    IF o.sealed /\ ~HasKey(o.kv, k) THEN [obj |-> o, threw |-> TRUE]
    ELSE [obj |-> [o EXCEPT !.kv = ReflectSet(@, k, v)], threw |-> FALSE]
OrdinaryDelete(o, k) ==
    IF o.sealed /\ HasKey(o.kv, k) THEN [obj |-> o, threw |-> TRUE]
    ELSE [obj |-> [o EXCEPT !.kv = ReflectDeleteProperty(@, k)], threw |-> FALSE]

(* Object.assign(target, source) replaced by a whole-object replacement. *)
ObjectReplace(target, src) == [obj |-> [target EXCEPT !.kv = src], threw |-> FALSE]

(* Object.assign(target, source): copies source's own properties in order  *)
(* with [[Set]] semantics that throw; adding a property to a sealed        *)
(* (non-extensible) target throws a TypeError and stops the copy there.    *)
RECURSIVE ObjectAssign(_, _)
ObjectAssign(target, src) ==
    IF src = <<>> THEN [obj |-> target, threw |-> FALSE]
    ELSE IF target.sealed /\ ~HasKey(target.kv, Head(src)[1])
         THEN [obj |-> target, threw |-> TRUE]
         ELSE ObjectAssign([target EXCEPT !.kv = ReflectSet(@, Head(src)[1], Head(src)[2])],
                           Tail(src))

(* ------------------------------ transport ----------------------------- *)
IsHost(p) == p = Host
HostId == Host
(* peers() as an iterable: the session's peers in some fixed order. *)
RECURSIVE SetToSeq(_)
SetToSeq(S) ==
    IF S = {} THEN <<>>
    ELSE LET x == CHOOSE y \in S : TRUE IN <<x>> \o SetToSeq(S \ {x})
TransportPeers == SetToSeq(peerSet)
(* send(peerId, payload, reliable): the payload is serialized when handed over. *)
Wire(msg) == [msg EXCEPT !.data = JsonStringify(@)]
TransportSend(n, from, to, msg, reliable) ==
    [n EXCEPT ![<<from, to>>] = Append(@, [Wire(msg) EXCEPT !.reliable = reliable])]

(* ------------------------------ envelopes ----------------------------- *)
RpcMessage(key, method, args, id) ==
    [t |-> "rpc", key |-> key, method |-> method, args |-> args,
     chan |-> "", rev |-> 0, data |-> <<>>, id |-> id, reliable |-> FALSE]
MulticastMessage(key, method, args, id) ==
    [t |-> "multicast", key |-> key, method |-> method, args |-> args,
     chan |-> "", rev |-> 0, data |-> <<>>, id |-> id, reliable |-> FALSE]
PatchMessage(key, chan, rev, data) ==
    [t |-> "patch", key |-> key, method |-> "", args |-> 0,
     chan |-> chan, rev |-> rev, data |-> data, id |-> 0, reliable |-> FALSE]

(* ------------------------------- NetBus ------------------------------- *)
makeTargetKey(address, method) == <<address, method>>

(* ------------------- decorators.ts: method metadata ------------------- *)
(* classMeta: parent = the class each defined class extends ("Object" for  *)
(* none), decl = the (kind, name) pairs it decorates, own = the array its   *)
(* constructor holds as own [META_KEY] property (arrays are named by the    *)
(* class whose decorator created them), arrays = their contents, inst = the *)
(* class of each instance registered with a bus.                            *)
NoClasses == [parent |-> EmptyMap, decl |-> EmptyMap, own |-> EmptyMap,
              arrays |-> EmptyMap, inst |-> EmptyMap]
MetaKeyOf(m) == <<m.kind, m.name>>
Meta(kind, name, ctor) == [kind |-> kind, name |-> name, original |-> <<ctor, name>>]

(* ctor[META_KEY]: a property read, so it is looked up along the chain of   *)
(* constructors (class B extends A makes A the prototype of B).             *)
RECURSIVE ReadMetaKey(_, _)
ReadMetaKey(cm, ctor) ==
    IF ctor = "Object" THEN <<>>
    ELSE IF MapHas(cm.own, ctor) THEN << cm.own[ctor] >>
    ELSE ReadMetaKey(cm, cm.parent[ctor])

(* getMetaArray: existing = ctor[META_KEY] ?? []; ctor[META_KEY] = existing *)
getMetaArray(cm, ctor) ==
    IF ReadMetaKey(cm, ctor) # <<>>
    THEN [cm EXCEPT !.own = MapSet(@, ctor, ReadMetaKey(cm, ctor)[1])]
    ELSE [cm EXCEPT !.own = MapSet(@, ctor, ctor), !.arrays = MapSet(@, ctor, <<>>)]

(* A method decorator runs: metaArr.push({kind, name, original}). *)
Decorate(cm, ctor, kind, name) ==
    LET cm2 == getMetaArray(cm, ctor)
        ref == cm2.own[ctor]
    IN  [cm2 EXCEPT !.arrays = MapSet(@, ref, Append(cm2.arrays[ref], Meta(kind, name, ctor)))]

(* A class definition is evaluated: its method decorators run in order. *)
RECURSIVE DecorateAll(_, _, _)
DecorateAll(cm, ctor, decls) ==
    IF decls = <<>> THEN cm
    ELSE DecorateAll(Decorate(cm, ctor, Head(decls)[1], Head(decls)[2]), ctor, Tail(decls))
ClassDefinition(cm, ctor, parent, decls) ==
    DecorateAll([cm EXCEPT !.parent = MapSet(@, ctor, parent),
                           !.decl = MapSet(@, ctor, {decls[j] : j \in 1..Len(decls)})],
                ctor, decls)

(* collectMethodMeta: the while loop over the prototypes of the instance. *)
RECURSIVE WalkPrototypes(_, _)
WalkPrototypes(cm, proto) ==
    IF proto = "Object" THEN <<>>
    ELSE (IF ReadMetaKey(cm, proto) = <<>> THEN <<>> ELSE cm.arrays[ReadMetaKey(cm, proto)[1]])
             \o WalkPrototypes(cm, cm.parent[proto])
Reverse(s) == [j \in 1..Len(s) |-> s[Len(s) + 1 - j]]
RECURSIVE FirstSeen(_, _)
FirstSeen(metas, seenKeys) ==
    IF metas = <<>> THEN <<>>
    ELSE IF MetaKeyOf(Head(metas)) \in seenKeys
         THEN FirstSeen(Tail(metas), seenKeys)
         ELSE << Head(metas) >> \o FirstSeen(Tail(metas), seenKeys \cup {MetaKeyOf(Head(metas))})
collectMethodMetaOf(cm, cls) == Reverse(FirstSeen(Reverse(WalkPrototypes(cm, cls)), {}))

(* registerInstance for an instance of class cls: handlers.set per meta. *)
RECURSIVE BindAll(_, _, _, _)
BindAll(h, p, address, metas) ==
    IF metas = <<>> THEN h
    ELSE BindAll(MapSet(h, makeTargetKey(address, Head(metas).name),
                        [inst |-> <<p, address>>, original |-> Head(metas).original]),
                 p, address, Tail(metas))
registerInstanceOf(h, cm, p, cls, address) == BindAll(h, p, address, collectMethodMetaOf(cm, cls))

(* The one component class of the sessions below, its two methods decorated. *)
ComponentClass ==
    ClassDefinition(NoClasses, "Component", "Object",
                    << <<"RunOnServer", "heal">>, <<"Multicast", "emote">> >>)

(* collectMethodMeta for the one component class of the model. *)
collectMethodMeta ==
    {[kind |-> "RunOnServer", name |-> m] : m \in RunOnServerMethods}
        \cup {[kind |-> "Multicast", name |-> m] : m \in MulticastMethods}

(* registerInstance: bind the original of every decorated method. *)
registerInstance(h, p, address) ==
    [k \in (DOMAIN h) \cup {makeTargetKey(address, m.name) : m \in collectMethodMeta} |->
        IF k[1] = address /\ k[2] \in {m.name : m \in collectMethodMeta}
        THEN [inst |-> <<p, address>>, original |-> k[2]]
        ELSE h[k]]
(* registerHandler: this.handlers.set(targetKey, handler) *)
registerHandlerKeepsFirst(h, targetKey, handler) ==
    IF MapHas(h, targetKey) THEN h ELSE MapSet(h, targetKey, handler)
registerHandler(h, targetKey, handler) == MapSet(h, targetKey, handler)
(* registerInstance for the instance inst, of a class whose decorated       *)
(* methods are names, under an address that may already be in use.          *)
registerInstanceAs(h, inst, address, names) ==
    [k \in (DOMAIN h) \cup {makeTargetKey(address, nm) : nm \in names} |->
        IF k[1] = address /\ k[2] \in names
        THEN [inst |-> inst, original |-> k[2]]
        ELSE h[k]]

(* sendMulticast / sendPatch: one send per peer of peers() other than self. *)
FanOutSkipsNone(p, pid) == FALSE
SkipsPeer(p, pid) == pid = p
(* this.transport.send(pid, msg, true) *)
FanOutUnreliable(msg) == FALSE
FanOutReliable(msg) == TRUE
RECURSIVE FanOut(_, _, _, _)
FanOut(n, p, pids, msg) ==
    IF pids = <<>> THEN n
    ELSE IF SkipsPeer(p, Head(pids))
         THEN FanOut(n, p, Tail(pids), msg)
         ELSE FanOut(TransportSend(n, p, Head(pids), msg, FanOutReliable(msg)),
                     p, Tail(pids), msg)
sendPatch(n, p, key, chan, rev, data) ==
    FanOut(n, p, TransportPeers, PatchMessage(key, chan, rev, data))
sendMulticast(n, p, address, method, args, id) ==
    FanOut(n, p, TransportPeers, MulticastMessage(address, method, args, id))

(* The effect of running an original (undecorated) method body on peer p. *)
Body(key, method, args, id) == [key |-> key, method |-> method, args |-> args, id |-> id]
RunOriginal(log, p, key, method, args, id) ==
    [log EXCEPT ![p] = Append(@, Body(key, method, args, id))]

(* handlers.get(targetKey): the bound handler, or undefined. *)
HandlerForAnyKey(p, targetKey) == << [inst |-> <<p, targetKey[1]>>, original |-> targetKey[2]] >>
HandlerFor(p, targetKey) ==
    IF MapHas(handlers[p], targetKey) THEN << handlers[p][targetKey] >> ELSE <<>>

(* invokeLocalByTarget *)
invokeLocal(log, p, address, method, args, id) ==
    IF HandlerFor(p, makeTargetKey(address, method)) # <<>>
    THEN RunOriginal(log, p, address,
                     HandlerFor(p, makeTargetKey(address, method))[1].original, args, id)
    ELSE log

sendRpcToHostLog(log, p, address, method, args, id) ==
    IF IsHost(p) THEN invokeLocal(log, p, address, method, args, id) ELSE log
sendRpcToHostAlwaysSends(n, p, address, method, args, id) ==
    TransportSend(n, p, HostId, RpcMessage(address, method, args, id), TRUE)
sendRpcToHostNet(n, p, address, method, args, id) ==
    IF IsHost(p) THEN n
    ELSE TransportSend(n, p, HostId, RpcMessage(address, method, args, id), TRUE)

(* ----------------------------- decorators ----------------------------- *)
(* @RunOnServer stub: with a bus, the original runs iff bus.isHost. *)
StubRunsOriginalEverywhere(p) == TRUE
StubRunsOriginal(p) == IsHost(p)
RunOnServerStubLog(log, p, key, method, args, id) ==
    IF StubRunsOriginal(p) THEN RunOriginal(log, p, key, method, args, id)
    ELSE sendRpcToHostLog(log, p, key, method, args, id)
RunOnServerStubAlwaysSends(n, p, key, method, args, id) ==
    TransportSend(n, p, HostId, RpcMessage(key, method, args, id), TRUE)
RunOnServerStubNet(n, p, key, method, args, id) ==
    IF StubRunsOriginal(p) THEN n ELSE sendRpcToHostNet(n, p, key, method, args, id)

(* @Multicast stub: bus.sendMulticast(...), then original.apply(this, args). *)
MulticastStubSendsOnly(log, p, key, method, args, id) == log
MulticastStubLog(log, p, key, method, args, id) ==
    RunOriginal(log, p, key, method, args, id)
MulticastStubSendsNothing(n, p, key, method, args, id) == n
MulticastStubNet(n, p, key, method, args, id) ==
    sendMulticast(n, p, key, method, args, id)

(* What a handler bound by registerInstance invokes: m.original, which  *)
(* runs the body and sends nothing (the decorated property would       *)
(* dispatch again).                                                     *)
BindsStub(method) == TRUE
BindsDecorated(method) == FALSE
BoundLog(log, p, key, method, args, id) ==
    IF ~BindsDecorated(method) THEN RunOriginal(log, p, key, method, args, id)
    ELSE IF method \in MulticastMethods
         THEN MulticastStubLog(log, p, key, method, args, id)
         ELSE RunOnServerStubLog(log, p, key, method, args, id)
BoundNet(n, p, key, method, args, id) ==
    IF ~BindsDecorated(method) THEN n
    ELSE IF method \in MulticastMethods
         THEN MulticastStubNet(n, p, key, method, args, id)
         ELSE RunOnServerStubNet(n, p, key, method, args, id)

(* ---------------------------- NetComponent ---------------------------- *)
Constructed(p, a) == MapHas(handlers[p], makeTargetKey(a, PatchMethod))
Registered(a, m) == {q \in Peers : MapHas(handlers[q], makeTargetKey(a, m))}

(* constructor: registerInstance, then registerHandler for the patch receiver. *)
NetComponentConstructor(h, p, a) ==
    registerHandler(registerInstance(h, p, a), makeTargetKey(a, PatchMethod),
                    [inst |-> <<p, a>>, original |-> PatchMethod])

NetComponentConstructorAs(h, inst, a, names) ==
    registerHandler(registerInstanceAs(h, inst, a, names), makeTargetKey(a, PatchMethod),
                    [inst |-> inst, original |-> PatchMethod])

stateChannelRecreates(objs, p, channel, initialValue) ==
    MapSet(objs, channel, [kv |-> initialValue, sealed |-> ~IsHost(p)])
(* stateChannel(channel, initial): the map after the call. *)
stateChannel(objs, p, channel, initialValue) ==
    IF MapHas(objs, channel) THEN objs
    ELSE MapSet(objs, channel, [kv |-> initialValue, sealed |-> ~IsHost(p)])

(* What stateChannel returns: the stored object itself for an existing    *)
(* name and on a Replica (there sealed), a reactive proxy of it otherwise. *)
stateChannelReturns(objs, p, channel) ==
    IF MapHas(objs, channel) THEN "base"
    ELSE IF ~IsHost(p) THEN "base" ELSE "proxy"

(* get trap of the reactive proxy: a nested plain object is returned as a  *)
(* proxy of the same kind; an array, a Map, a Set or a number as it is.     *)
GetTrapWrapsNothing(v) == FALSE
GetTrapWraps(v) == IsRef(v) /\ Deref(v).t = "obj"

(* proxy.p1.p2...: the properties of path exist and hold nested values.    *)
RECURSIVE PathExists(_, _)
PathExists(kv, path) ==
    IF path = <<>> THEN TRUE
    ELSE IF ~HasKey(kv, Head(path)) THEN FALSE
    ELSE IF ~IsRef(ReflectGet(kv, Head(path))) THEN FALSE
    ELSE PathExists(Deref(ReflectGet(kv, Head(path))).kv, Tail(path))
(* Every get along the path returned a proxy. *)
RECURSIVE TrackedAt(_, _)
TrackedAt(kv, path) ==
    IF path = <<>> THEN TRUE
    ELSE IF ~GetTrapWraps(ReflectGet(kv, Head(path))) THEN FALSE
    ELSE TrackedAt(Deref(ReflectGet(kv, Head(path))).kv, Tail(path))
(* The properties of the value the path leads to. *)
RECURSIVE ValueAt(_, _)
ValueAt(kv, path) ==
    IF path = <<>> THEN kv ELSE ValueAt(Deref(ReflectGet(kv, Head(path))).kv, Tail(path))
(* The object after property k of the value at path was set to v, as a    *)
(* one-element sequence; empty if the result lies outside NestedValues.     *)
RECURSIVE TryWriteAt(_, _, _, _)
TryWriteAt(kv, path, k, v) ==
    IF path = <<>> THEN << ReflectSet(kv, k, v) >>
    ELSE LET d == Deref(ReflectGet(kv, Head(path)))
             inner == TryWriteAt(d.kv, Tail(path), k, v)
         IN  IF inner = <<>> THEN <<>>
             ELSE IF ~HasRefTo([t |-> d.t, kv |-> inner[1]]) THEN <<>>
             ELSE << ReflectSet(kv, Head(path), RefTo([t |-> d.t, kv |-> inner[1]])) >>
WriteAt(kv, path, k, v) == TryWriteAt(kv, path, k, v)[1]

(* set trap of the reactive proxy: does the assignment change the value? *)
SetTrapAlwaysChanges(kv, k, v) == TRUE
SetTrapChanges(kv, k, v) == ~(HasKey(kv, k) /\ ReflectGet(kv, k) = v)

(* syncState: if (!this._isHost) return;  _isHost is fixed at construction. *)
SyncStateRunsAnywhere(p) == TRUE
SyncStateRuns(p) == IsHost(p)

(* syncState: does the pass emit?  (currentState === lastSynced skips) *)
SyncEmitsAlways(comp, channel) == MapHas(comp.objs, channel)
SyncEmits(comp, channel) ==
    /\ MapHas(comp.objs, channel)
    /\ ~(MapHas(comp.synced, channel)
         /\ comp.synced[channel] = JsonStringify(comp.objs[channel].kv))
NextRevSkipsOne(comp, channel) == MapGetOr(comp.send, channel, 0) + 2
NextRev(comp, channel) == MapGetOr(comp.send, channel, 0) + 1
PatchDataStale(comp, channel) ==
    IF MapHas(comp.synced, channel) THEN JsonParse(comp.synced[channel]) ELSE <<>>
PatchData(comp, channel) == comp.objs[channel].kv

(* _applyStatePatch: the revision guard, then merge and hook. *)
GuardDropsOlderOnly(rev, last) == rev < last
GuardDropsGaps(rev, last) == rev # last + 1
GuardDrops(rev, last) == rev <= last
(* const last = this.__revRecv.get(patch.__chan) ?? 0 *)
LastRevAnyChannel(comp, patch) ==
    LET S == {0} \cup {comp.recv[c] : c \in DOMAIN comp.recv}
    IN  CHOOSE x \in S : \A y \in S : y <= x
LastRev(comp, patch) == MapGetOr(comp.recv, patch.chan, 0)
(* this.__revRecv.set(patch.__chan, patch.__rev) *)
RecordedRevPlusOne(patch) == patch.rev + 1
RecordedRev(patch) == patch.rev
ApplyStatePatch(comp, patch) ==
    LET last == LastRev(comp, patch) IN
    IF GuardDrops(patch.rev, last)
    THEN [objs |-> comp.objs, recv |-> comp.recv, hooks |-> comp.hooks, outcome |-> "stale"]
    ELSE LET recv2 == MapSet(comp.recv, patch.chan, RecordedRev(patch)) IN
         IF ~MapHas(comp.objs, patch.chan)
         THEN [objs |-> comp.objs, recv |-> recv2, hooks |-> comp.hooks,
               outcome |-> "nochannel"]
         ELSE LET res == ObjectAssign(comp.objs[patch.chan], patch.data) IN
              [objs |-> MapSet(comp.objs, patch.chan, res.obj),
               recv |-> recv2,
               hooks |-> IF res.threw THEN comp.hooks ELSE Append(comp.hooks, patch.chan),
               outcome |-> IF res.threw THEN "threw" ELSE "applied"]

Receiver(i) == [objs |-> stateObjs[i], recv |-> revRecv[i], hooks |-> hookLog[i]]
Sender(i) == [objs |-> stateObjs[i], send |-> revSend[i], synced |-> lastSynced[i]]


(* ------------------------------ initial state ------------------------- *)
(* tick: w = writes and syncState calls made by component code so far,     *)
(* raw = per channel, "raw" once a value held in it was mutated in place    *)
(* with an effect on its serialized state, "followed" once a mutation       *)
(* through the proxy came after that, "none" once a patch was sent;         *)
(* del = a field was deleted through the proxy; of the current (or last)   *)
(* synchronous block: mut = value-changing mutations through the proxy per *)
(* channel, sent = sendPatch calls per channel, base = __lastSynced per channel when it began,        *)
(* same = an assignment of the value already held was made.                 *)
NoTick == [w |-> 0,
           mut |-> [ac \in Addrs \X Channels |-> 0],
           sent |-> [ac \in Addrs \X Channels |-> <<>>],
           base |-> [ac \in Addrs \X Channels |-> <<>>],
           same |-> FALSE,
           del |-> FALSE,
           raw |-> [ac \in Addrs \X Channels |-> "none"]]
Op(rev, outcome) == [rev |-> rev, outcome |-> outcome]

InitRest ==
    /\ net = [pq \in Pairs |-> <<>>]
    /\ stateObjs = [i \in Insts |-> EmptyMap]
    /\ revSend = [i \in Insts |-> EmptyMap]
    /\ revRecv = [i \in Insts |-> EmptyMap]
    /\ lastSynced = [i \in Insts |-> EmptyMap]
    /\ microtasks = [p \in Peers |-> <<>>]
    /\ phase = [p \in Peers |-> "idle"]
    /\ execLog = [p \in Peers |-> <<>>]
    /\ hookLog = [i \in Insts |-> <<>>]
    /\ calls = <<>>
    /\ tick = NoTick
    /\ seen = [i \in Insts |-> {}]
    /\ initial = [i \in Insts |-> EmptyMap]
    /\ handles = [i \in Insts |-> EmptyMap]
    /\ dropped = [p \in Peers |-> {}]
    /\ lastOp = Op(0, "none")
InitCommon ==
    /\ classMeta = ComponentClass
    /\ InitRest

(* The session as the Authority opens it: no other peer, no component yet. *)
Init ==
    /\ InitCommon
    /\ peerSet = {Host}
    /\ handlers = [p \in Peers |-> EmptyMap]

(* -------------------------- session and setup ------------------------- *)
Join(p) ==
    /\ p \notin peerSet
    /\ peerSet' = peerSet \cup {p}
    /\ UNCHANGED <<lastOp, classMeta, net, busVars, chanVars, loopVars>>

Construct(p, a) ==
    /\ p \in peerSet
    /\ phase[p] # "drain"
    /\ ~Constructed(p, a)
    /\ handlers' = [handlers EXCEPT ![p] = NetComponentConstructor(@, p, a)]
    /\ UNCHANGED <<lastOp, peerSet, classMeta, net, execLog, calls, dropped, chanVars, loopVars>>

(* ----------------------- decorated-method calls ----------------------- *)
(* History of a call: reg and known are the peers with the target bound and *)
(* the session's peers when it was made; after holds, for a call made by    *)
(* Authority code later in the block that mutated a channel, the revision   *)
(* the next patch of that channel will carry.                               *)
MutatedBefore(p) ==
    IF p = Host /\ phase[Host] = "sync"
    THEN {<<ac[1], ac[2], MapGetOr(revSend[<<Host, ac[1]>>], ac[2], 0) + 1>> :
             ac \in {x \in Addrs \X Channels : tick.mut[x] >= 1}}
    ELSE {}
CallRecord(p, kind, a, m, arg) ==
    [id |-> Len(calls) + 1, caller |-> p, kind |-> kind, key |-> a, method |-> m,
     args |-> arg, reg |-> Registered(a, m), known |-> peerSet, after |-> MutatedBefore(p)]

CallRunOnServer(p, a, m, arg) ==
    /\ p \in peerSet
    /\ phase[p] # "drain"
    /\ Constructed(p, a)
    /\ Len(calls) < MaxCalls
    /\ execLog' = RunOnServerStubLog(execLog, p, a, m, arg, Len(calls) + 1)
    /\ net' = RunOnServerStubNet(net, p, a, m, arg, Len(calls) + 1)
    /\ calls' = Append(calls, CallRecord(p, "RunOnServer", a, m, arg))
    /\ UNCHANGED <<lastOp, peerSet, classMeta, handlers, dropped, chanVars, loopVars>>

CallMulticast(p, a, m, arg) ==
    /\ p \in peerSet
    /\ phase[p] # "drain"
    /\ Constructed(p, a)
    /\ Len(calls) < MaxCalls
    /\ net' = MulticastStubNet(net, p, a, m, arg, Len(calls) + 1)
    /\ execLog' = MulticastStubLog(execLog, p, a, m, arg, Len(calls) + 1)
    /\ calls' = Append(calls, CallRecord(p, "Multicast", a, m, arg))
    /\ UNCHANGED <<lastOp, peerSet, classMeta, handlers, dropped, chanVars, loopVars>>

(* --------------------------- inbound dispatch ------------------------- *)
(* What the transport hands to onMessage: the payload, deserialized. *)
Unwire(msg) == [msg EXCEPT !.data = JsonParse(@)]

(* A bound handler runs: the patch receiver, or a decorated method's original. *)
RunHandler(p, h, msg) ==
    IF h.original = PatchMethod
    THEN LET res == ApplyStatePatch(Receiver(h.inst), msg) IN
         /\ stateObjs' = [stateObjs EXCEPT ![h.inst] = res.objs]
         /\ revRecv' = [revRecv EXCEPT ![h.inst] = res.recv]
         /\ hookLog' = [hookLog EXCEPT ![h.inst] = res.hooks]
         /\ seen' = [seen EXCEPT ![h.inst] = @ \cup {<<msg.chan, msg.rev>>}]
         /\ lastOp' = Op(msg.rev, res.outcome)
         /\ UNCHANGED <<execLog, dropped>>
    ELSE /\ execLog' = BoundLog(execLog, p, msg.key, h.original, msg.args, msg.id)
         /\ UNCHANGED <<stateObjs, revRecv, hookLog, seen, dropped, lastOp>>

Dropped(p, msg, why) ==
    /\ dropped' = [dropped EXCEPT ![p] = @ \cup {[t |-> msg.t, id |-> msg.id, why |-> why]}]
    /\ UNCHANGED <<execLog, stateObjs, revRecv, hookLog, seen, lastOp>>

(* handleEnvelope: only the host executes an RPC; the other kinds run anywhere. *)
RefusesAllOffHost(p, msg) == ~IsHost(p)
RefusesNothing(p, msg) == FALSE
Refuses(p, msg) == msg.t = "rpc" /\ ~IsHost(p)
TargetKey(msg) == makeTargetKey(msg.key, IF msg.t = "patch" THEN PatchMethod ELSE msg.method)
HandleEnvelope(p, msg) ==
    IF Refuses(p, msg) THEN Dropped(p, msg, "nothost")
    ELSE IF HandlerFor(p, TargetKey(msg)) # <<>>
         THEN RunHandler(p, HandlerFor(p, TargetKey(msg))[1], msg)
         ELSE Dropped(p, msg, "nohandler")
(* What the dispatch hands to the transport: only what the handler sends. *)
HandleEnvelopeNet(n, p, msg) ==
    IF ~Refuses(p, msg) /\ HandlerFor(p, TargetKey(msg)) # <<>>
          /\ HandlerFor(p, TargetKey(msg))[1].original # PatchMethod
    THEN BoundNet(n, p, msg.key, HandlerFor(p, TargetKey(msg))[1].original, msg.args, msg.id)
    ELSE n

(* Reliable, ordered transport: the oldest envelope of a pair is received. *)
Receive(from, to) ==
    /\ net[<<from, to>>] # <<>>
    /\ phase[to] = "idle"
    /\ net' = HandleEnvelopeNet([net EXCEPT ![<<from, to>>] = Tail(@)], to,
                                 Unwire(Head(net[<<from, to>>])))
    /\ HandleEnvelope(to, Unwire(Head(net[<<from, to>>])))
    /\ UNCHANGED <<peerSet, classMeta, handlers, calls, revSend, lastSynced, initial, handles, loopVars>>

NextBus ==
    \/ \E p \in Peers : Join(p)
    \/ \E p \in Peers, a \in Addrs : Construct(p, a)
    \/ \E p \in Peers, a \in Addrs, m \in RunOnServerMethods, arg \in ArgVals :
          CallRunOnServer(p, a, m, arg)
    \/ \E p \in Peers, a \in Addrs, m \in MulticastMethods, arg \in ArgVals :
          CallMulticast(p, a, m, arg)
    \/ \E from \in Peers, to \in Peers : Receive(from, to)

Spec == Init /\ [][NextBus]_vars


(* ------------------------- state channels: setup ---------------------- *)
(* A session of the Authority and one Replica, their components built. *)
InitChan ==
    /\ InitCommon
    /\ peerSet = {Host, "r1"}
    /\ handlers = [p \in Peers |->
          IF p \in {Host, "r1"}
          THEN [k \in Addrs \X (RunOnServerMethods \cup MulticastMethods \cup {PatchMethod}) |->
                  [inst |-> <<p, k[1]>>, original |-> k[2]]]
          ELSE EmptyMap]

(* The first stateChannel call of an instance for a name. *)
StateChannel(p, a, c, initialValue) ==
    /\ p \in peerSet
    /\ Constructed(p, a)
    /\ phase[p] # "drain"
    /\ ~MapHas(stateObjs[<<p, a>>], c)
    /\ stateObjs' = [stateObjs EXCEPT ![<<p, a>>] = stateChannel(@, p, c, initialValue)]
    /\ initial' = [initial EXCEPT ![<<p, a>>] = MapSet(@, c, initialValue)]
    /\ handles' = [handles EXCEPT ![<<p, a>>] =
                      MapSet(@, c, {stateChannelReturns(stateObjs[<<p, a>>], p, c)})]
    /\ UNCHANGED <<peerSet, classMeta, net, busVars, revSend, revRecv, lastSynced, hookLog,
                   seen, loopVars, lastOp>>

(* --------------------- Authority code and its event loop -------------- *)
BeginTick ==
    /\ phase[Host] = "idle"
    /\ tick.w < MaxWrites
    /\ phase' = [phase EXCEPT ![Host] = "sync"]
    /\ tick' = [w |-> tick.w,
                mut |-> [ac \in Addrs \X Channels |-> 0],
                sent |-> [ac \in Addrs \X Channels |-> <<>>],
                base |-> [ac \in Addrs \X Channels |->
                            IF MapHas(lastSynced[<<Host, ac[1]>>], ac[2])
                            THEN << lastSynced[<<Host, ac[1]>>][ac[2]] >> ELSE <<>>],
                same |-> FALSE,
                del |-> tick.del,
                raw |-> tick.raw]
    /\ UNCHANGED <<peerSet, classMeta, net, busVars, chanVars, microtasks, lastOp>>

(* proxy.k = v through the reactive proxy of channel c (set trap). *)
ProxySet(a, c, k, v) ==
    LET i == <<Host, a>> IN
    /\ phase[Host] = "sync"
    /\ MapHas(stateObjs[i], c)
    /\ tick.w < MaxWrites
    /\ IF SetTrapChanges(stateObjs[i][c].kv, k, v)
       THEN /\ stateObjs' = [stateObjs EXCEPT ![i][c].kv = ReflectSet(@, k, v)]
            /\ microtasks' = [microtasks EXCEPT ![Host] = Append(@, <<a, c>>)]
            /\ tick' = [tick EXCEPT !.mut[<<a, c>>] = @ + 1, !.w = @ + 1,
                                    !.raw[<<a, c>>] = IF @ = "raw" THEN "followed" ELSE @]
       ELSE /\ tick' = [tick EXCEPT !.same = TRUE]
            /\ UNCHANGED <<stateObjs, microtasks>>
    /\ UNCHANGED <<peerSet, classMeta, net, busVars, revSend, revRecv, lastSynced, hookLog,
                   seen, initial, handles, phase, lastOp>>

(* delete proxy.k (deleteProperty trap): deletes, then always schedules. *)
ProxyDelete(a, c, k) ==
    LET i == <<Host, a>> IN
    /\ phase[Host] = "sync"
    /\ MapHas(stateObjs[i], c)
    /\ tick.w < MaxWrites
    /\ stateObjs' = [stateObjs EXCEPT ![i][c].kv = ReflectDeleteProperty(@, k)]
    /\ microtasks' = [microtasks EXCEPT ![Host] = Append(@, <<a, c>>)]
    /\ tick' = [tick EXCEPT !.mut[<<a, c>>] =
                               IF HasKey(stateObjs[i][c].kv, k) THEN @ + 1 ELSE @,
                            !.w = @ + 1,
                            !.del = @ \/ HasKey(stateObjs[i][c].kv, k),
                            !.raw[<<a, c>>] = IF @ = "raw" THEN "followed" ELSE @]
    /\ UNCHANGED <<peerSet, classMeta, net, busVars, revSend, revRecv, lastSynced, hookLog,
                   seen, initial, handles, phase, lastOp>>

EndTick ==
    /\ phase[Host] = "sync"
    /\ phase' = [phase EXCEPT ![Host] = IF microtasks[Host] = <<>> THEN "idle" ELSE "drain"]
    /\ UNCHANGED <<peerSet, classMeta, net, busVars, chanVars, microtasks, tick, lastOp>>

(* syncState(channel) of the component of peer p at address a; t is the   *)
(* bookkeeping of the block it runs in.                                   *)
SyncState(p, a, c, t) ==
    LET i == <<p, a>> IN
    IF SyncStateRuns(p) /\ SyncEmits(Sender(i), c)
    THEN /\ revSend' = [revSend EXCEPT ![i] = MapSet(@, c, NextRev(Sender(i), c))]
         /\ lastSynced' = [lastSynced EXCEPT ![i] =
                              MapSet(@, c, JsonStringify(stateObjs[i][c].kv))]
         /\ net' = sendPatch(net, p, a, c, NextRev(Sender(i), c), PatchData(Sender(i), c))
         /\ tick' = [t EXCEPT !.sent[<<a, c>>] =
                       Append(@, [rev |-> NextRev(Sender(i), c),
                                  data |-> PatchData(Sender(i), c)]),
                              !.raw[<<a, c>>] = "none"]
    ELSE /\ tick' = t
         /\ UNCHANGED <<revSend, lastSynced, net>>
SyncOutcome(p, a, c) ==
    IF ~SyncStateRuns(p) THEN "nothost"
    ELSE IF SyncEmits(Sender(<<p, a>>), c) THEN "sent" ELSE "unchanged"

(* The oldest microtask runs: () => this.syncState(channel). *)
RunMicrotask(p) ==
    /\ phase[p] = "drain"
    /\ microtasks[p] # <<>>
    /\ LET a == Head(microtasks[p])[1]
           c == Head(microtasks[p])[2]
           i == <<p, a>>
       IN  SyncState(p, a, c, tick)
    /\ microtasks' = [microtasks EXCEPT ![p] = Tail(@)]
    /\ phase' = [phase EXCEPT ![p] = IF Tail(microtasks[p]) = <<>> THEN "idle" ELSE "drain"]
    /\ UNCHANGED <<peerSet, classMeta, busVars, stateObjs, revRecv, hookLog, seen, initial, handles, lastOp>>

(* ----------- unreliable transport: loss, duplication, reordering ------ *)
(* Any envelope handed to the transport may be received at any later time, *)
(* any number of times (never: it is lost), whatever was received before.  *)
ReceiveAny(from, to, n) ==
    /\ n \in 1..Len(net[<<from, to>>])
    /\ phase[to] = "idle"
    /\ net' = HandleEnvelopeNet(net, to, Unwire(net[<<from, to>>][n]))
    /\ HandleEnvelope(to, Unwire(net[<<from, to>>][n]))
    /\ UNCHANGED <<peerSet, classMeta, handlers, calls, revSend, lastSynced, initial, handles, loopVars>>

NextChan ==
    \/ \E p \in Peers, a \in Addrs, c \in Channels, initialValue \in InitialValues :
          StateChannel(p, a, c, initialValue)
    \/ BeginTick
    \/ \E a \in Addrs, c \in Channels, w \in Writes : ProxySet(a, c, w[1], w[2])
    \/ \E a \in Addrs, c \in Channels, k \in Keys : ProxyDelete(a, c, k)
    \/ EndTick
    \/ \E p \in Peers : RunMicrotask(p)
    \/ \E from \in Peers, to \in Peers, n \in 1..MaxWrites : ReceiveAny(from, to, n)

SpecChan == InitChan /\ [][NextChan]_vars

(* ------------- writes that do not go through the reactive proxy -------- *)
(* Component code holds the object a stateChannel call returned and writes  *)
(* to it: on a Replica the sealed object, on the Authority the plain object *)
(* a repeated call returned.  No trap runs.                                 *)
HoldsBase(p, a, c) ==
    /\ p \in peerSet
    /\ MapHas(stateObjs[<<p, a>>], c)
    /\ "base" \in MapGetOr(handles[<<p, a>>], c, {})
    /\ phase[p] = IF IsHost(p) THEN "sync" ELSE "idle"
    /\ tick.w < MaxWrites

(* A repeated stateChannel call of an instance for a name it has created. *)
StateChannelAgain(p, a, c, initialValue) ==
    /\ p \in peerSet
    /\ Constructed(p, a)
    /\ phase[p] # "drain"
    /\ MapHas(stateObjs[<<p, a>>], c)
    /\ stateObjs' = [stateObjs EXCEPT ![<<p, a>>] = stateChannel(@, p, c, initialValue)]
    /\ handles' = [handles EXCEPT ![<<p, a>>] =
                      MapSet(@, c, @[c] \cup {stateChannelReturns(stateObjs[<<p, a>>], p, c)})]
    /\ lastOp' = Op(0, "existing")
    /\ UNCHANGED <<peerSet, classMeta, net, busVars, revSend, revRecv, lastSynced, hookLog,
                   seen, initial, loopVars>>

DirectSet(p, a, c, k, v) ==
    LET res == OrdinarySet(stateObjs[<<p, a>>][c], k, v) IN
    /\ HoldsBase(p, a, c)
    /\ stateObjs' = [stateObjs EXCEPT ![<<p, a>>][c] = res.obj]
    /\ lastOp' = Op(0, IF res.threw THEN "TypeError" ELSE "written")
    /\ tick' = [tick EXCEPT !.w = @ + 1]
    /\ UNCHANGED <<peerSet, classMeta, net, busVars, revSend, revRecv, lastSynced, hookLog,
                   seen, initial, handles, microtasks, phase>>

DirectDelete(p, a, c, k) ==
    LET res == OrdinaryDelete(stateObjs[<<p, a>>][c], k) IN
    /\ HoldsBase(p, a, c)
    /\ stateObjs' = [stateObjs EXCEPT ![<<p, a>>][c] = res.obj]
    /\ lastOp' = Op(0, IF res.threw THEN "TypeError" ELSE "written")
    /\ tick' = [tick EXCEPT !.w = @ + 1]
    /\ UNCHANGED <<peerSet, classMeta, net, busVars, revSend, revRecv, lastSynced, hookLog,
                   seen, initial, handles, microtasks, phase>>

(* Component code calls the protected syncState(channel) itself. *)
SyncStateCall(p, a, c) ==
    /\ p \in peerSet
    /\ Constructed(p, a)
    /\ phase[p] = IF IsHost(p) THEN "sync" ELSE "idle"
    /\ tick.w < MaxWrites
    /\ SyncState(p, a, c, [tick EXCEPT !.w = @ + 1])
    /\ lastOp' = Op(0, SyncOutcome(p, a, c))
    /\ UNCHANGED <<peerSet, classMeta, busVars, stateObjs, revRecv, hookLog, seen, initial, handles,
                   microtasks, phase>>

NextDirect ==
    \/ \E p \in Peers, a \in Addrs, c \in Channels, initialValue \in InitialValues :
          StateChannel(p, a, c, initialValue)
    \/ \E p \in Peers, a \in Addrs, c \in Channels, initialValue \in InitialValues :
          StateChannelAgain(p, a, c, initialValue)
    \/ BeginTick
    \/ \E a \in Addrs, c \in Channels, w \in Writes : ProxySet(a, c, w[1], w[2])
    \/ \E a \in Addrs, c \in Channels, k \in Keys : ProxyDelete(a, c, k)
    \/ EndTick
    \/ \E p \in Peers : RunMicrotask(p)
    \/ \E from \in Peers, to \in Peers : Receive(from, to)
    \/ \E p \in Peers, a \in Addrs, c \in Channels, w \in Writes :
          DirectSet(p, a, c, w[1], w[2])
    \/ \E p \in Peers, a \in Addrs, c \in Channels, k \in Keys : DirectDelete(p, a, c, k)
    \/ \E p \in Peers, a \in Addrs, c \in Channels : SyncStateCall(p, a, c)

SpecDirect == InitChan /\ [][NextDirect]_vars

(* ------------------ nested values held in a channel ------------------- *)
(* The Authority's channel holds a number, a plain object nested two deep,  *)
(* an array and a Map; the Replica created it with the same initial value.  *)
NestedInitialValue ==
    << <<"value", 100>>, <<"outer", 1003>>, <<"items", 1005>>, <<"index", 1007>> >>
(* proxy.outer.in.x = v, proxy.outer.in = {x: v}, proxy.items.push(1),       *)
(* proxy.index.set("k", 1): <<path, property, value>>.                      *)
NestedWrites ==
    { << <<"outer", "in">>, "x", 1 >>, << <<"outer", "in">>, "x", 2 >>,
      << <<"outer">>, "in", 1002 >>,
      << <<"items">>, "0", 1 >>, << <<"index">>, "k", 1 >> }

(* A write to property k of the value reached from the channel proxy along  *)
(* path.  If every get on the way returned a proxy the set trap runs: it    *)
(* schedules a pass when the value changes.  Otherwise the write (push, Map *)
(* set) is made on the value itself, behind the proxy.                      *)
NestedWrite(a, c, path, k, v) ==
    LET i == <<Host, a>>
        kv == stateObjs[i][c].kv
    IN
    /\ phase[Host] = "sync"
    /\ MapHas(stateObjs[i], c)
    /\ tick.w < MaxWrites
    /\ PathExists(kv, path)
    /\ TryWriteAt(kv, path, k, v) # <<>>
    /\ IF TrackedAt(kv, path)
       THEN IF SetTrapChanges(ValueAt(kv, path), k, v)
            THEN /\ stateObjs' = [stateObjs EXCEPT ![i][c].kv = WriteAt(kv, path, k, v)]
                 /\ microtasks' = [microtasks EXCEPT ![Host] = Append(@, <<a, c>>)]
                 /\ tick' = [tick EXCEPT !.mut[<<a, c>>] = @ + 1, !.w = @ + 1,
                                         !.raw[<<a, c>>] = IF @ = "raw" THEN "followed" ELSE @]
            ELSE /\ tick' = [tick EXCEPT !.same = TRUE]
                 /\ UNCHANGED <<stateObjs, microtasks>>
       ELSE /\ stateObjs' = [stateObjs EXCEPT ![i][c].kv = WriteAt(kv, path, k, v)]
            /\ tick' = [tick EXCEPT !.w = @ + 1,
                                    !.raw[<<a, c>>] =
                                        IF JsonStringify(WriteAt(kv, path, k, v)) # JsonStringify(kv)
                                        THEN "raw" ELSE @]
            /\ UNCHANGED microtasks
    /\ UNCHANGED <<peerSet, classMeta, net, busVars, revSend, revRecv, lastSynced, hookLog,
                   seen, initial, handles, phase, lastOp>>

NextNested ==
    \/ \E p \in Peers, a \in Addrs, c \in Channels : StateChannel(p, a, c, NestedInitialValue)
    \/ BeginTick
    \/ \E a \in Addrs, c \in Channels, w \in {<<"value", 80>>} : ProxySet(a, c, w[1], w[2])
    \/ \E a \in Addrs, c \in Channels, k \in {"value"} : ProxyDelete(a, c, k)
    \/ \E a \in Addrs, c \in Channels, w \in NestedWrites : NestedWrite(a, c, w[1], w[2], w[3])
    \/ EndTick
    \/ RunMicrotask(Host)
    \/ \E a \in Addrs, c \in Channels : SyncStateCall(Host, a, c)
    \/ \E to \in Peers : Receive(Host, to)

SpecNested == InitChan /\ [][NextNested]_vars


(* -------- a session with joins, method calls and channel state -------- *)
(* Every peer process has built its component; the Authority and r1 are in *)
(* the session, r2 joins it while calls and mutations are made; the         *)
(* Authority and r1 create the channel.                                     *)
InitSend ==
    /\ InitCommon
    /\ peerSet = {Host, "r1"}
    /\ handlers = [p \in Peers |->
          [k \in Addrs \X (RunOnServerMethods \cup MulticastMethods \cup {PatchMethod}) |->
              [inst |-> <<p, k[1]>>, original |-> k[2]]]]

SendInitialValue == << <<"value", 100>> >>
SendWrites == {<<"value", 80>>, <<"value", 100>>}

NextSend ==
    \/ \E p \in Peers : Join(p)
    \/ \E p \in {Host, "r1"}, a \in Addrs, c \in Channels :
          StateChannel(p, a, c, SendInitialValue)
    \/ BeginTick
    \/ \E a \in Addrs, c \in Channels, w \in SendWrites : ProxySet(a, c, w[1], w[2])
    \/ EndTick
    \/ RunMicrotask(Host)
    \/ \E p \in {Host, "r1"}, a \in Addrs, m \in MulticastMethods : CallMulticast(p, a, m, 1)
    \/ \E from \in Peers, to \in Peers : Receive(from, to)

SpecSend == InitSend /\ [][NextSend]_vars


(* ------------------- direct calls of bus.sendRpcToHost ---------------- *)
(* Code on peer p calls bus.sendRpcToHost(a, m, [arg]) itself, whether or  *)
(* not a component is registered at a on that peer.                        *)
SendRpcToHost(p, a, m, arg) ==
    /\ p \in peerSet
    /\ phase[p] # "drain"
    /\ Len(calls) < MaxCalls
    /\ execLog' = sendRpcToHostLog(execLog, p, a, m, arg, Len(calls) + 1)
    /\ net' = sendRpcToHostNet(net, p, a, m, arg, Len(calls) + 1)
    /\ calls' = Append(calls, CallRecord(p, "sendRpcToHost", a, m, arg))
    /\ UNCHANGED <<lastOp, peerSet, classMeta, handlers, dropped, chanVars, loopVars>>

NextRpc ==
    \/ \E p \in Peers : Join(p)
    \/ \E p \in Peers, a \in Addrs : Construct(p, a)
    \/ \E p \in Peers, a \in Addrs, m \in RunOnServerMethods, arg \in ArgVals :
          SendRpcToHost(p, a, m, arg)
    \/ \E from \in Peers, to \in Peers : Receive(from, to)

SpecRpc == Init /\ [][NextRpc]_vars


(* ------------- dispatch of whatever the transport delivers ------------ *)
(* handleEnvelope is the callback of transport.onMessage: it receives any  *)
(* envelope any peer hands to the transport (a peer of another version, a  *)
(* peer built in another order), not only those of the send paths above.   *)
(* They belong to no call of this model: their call id is 0.               *)
InboundEnvelopes ==
    {RpcMessage(a, m, 1, 0) : a \in Addrs, m \in RunOnServerMethods}
        \cup {MulticastMessage(a, m, 1, 0) : a \in Addrs, m \in MulticastMethods}
        \cup {PatchMessage(x[1], x[2], x[3], x[4]) :
                 x \in Addrs \X Channels \X {1, 2} \X {<< <<"value", 80>> >>}}

InitOpen ==
    /\ InitCommon
    /\ peerSet = {Host, "r1"}
    /\ handlers = [p \in Peers |-> EmptyMap]

Inbound(from, to, msg) ==
    /\ from \in peerSet /\ to \in peerSet /\ from # to
    /\ Len(calls) < MaxInbound
    /\ net' = TransportSend(net, from, to, msg, TRUE)
    /\ calls' = Append(calls, [id |-> 0, kind |-> "Inbound"])
    /\ UNCHANGED <<lastOp, peerSet, classMeta, handlers, execLog, dropped, chanVars, loopVars>>

NextOpen ==
    \/ \E p \in Peers, a \in Addrs : Construct(p, a)
    \/ \E p \in Peers, a \in Addrs, c \in Channels, initialValue \in InitialValues :
          StateChannel(p, a, c, initialValue)
    \/ \E from \in Peers, to \in Peers, msg \in InboundEnvelopes :
          Inbound(from, to, msg)
    \/ \E from \in Peers, to \in Peers : Receive(from, to)

SpecOpen == InitOpen /\ [][NextOpen]_vars


(* ------------- two instances registered under one address ------------ *)
(* On a peer the first component built at address a is the instance         *)
(* <<p, a>>; a second one built with the same address is <<p, Second(a)>>.  *)
(* The second is of the component class or of a class that decorates only   *)
(* the authority-only method.                                               *)
Second(a) == IF a = "a1" THEN "a1#2" ELSE "a2#2"
DupInsts == Peers \X (Addrs \cup {Second(a) : a \in Addrs})
DupClasses ==
    ClassDefinition(ComponentClass, "Healer", "Object", << <<"RunOnServer", "heal">> >>)
DupEnvelopes == {msg \in InboundEnvelopes : msg.rev <= 1}
MethodNamesOf(cls) ==
    {collectMethodMetaOf(classMeta, cls)[j].name :
         j \in 1..Len(collectMethodMetaOf(classMeta, cls))}

InitDup ==
    /\ peerSet = {Host, "r1"}
    /\ classMeta = DupClasses
    /\ handlers = [p \in Peers |-> EmptyMap]
    /\ net = [pq \in Pairs |-> <<>>]
    /\ stateObjs = [i \in DupInsts |-> EmptyMap]
    /\ revSend = [i \in DupInsts |-> EmptyMap]
    /\ revRecv = [i \in DupInsts |-> EmptyMap]
    /\ lastSynced = [i \in DupInsts |-> EmptyMap]
    /\ microtasks = [p \in Peers |-> <<>>]
    /\ phase = [p \in Peers |-> "idle"]
    /\ execLog = [p \in Peers |-> <<>>]
    /\ hookLog = [i \in DupInsts |-> <<>>]
    /\ calls = <<>>
    /\ tick = NoTick
    /\ seen = [i \in DupInsts |-> {}]
    /\ initial = [i \in DupInsts |-> EmptyMap]
    /\ handles = [i \in DupInsts |-> EmptyMap]
    /\ dropped = [p \in Peers |-> {}]
    /\ lastOp = Op(0, "none")

(* new cls(bus, {address: a}) on peer p, the address being in use there. *)
ConstructSecond(p, a, cls) ==
    /\ p \in peerSet
    /\ Constructed(p, a)
    /\ ~MapHas(classMeta.inst, <<p, Second(a)>>)
    /\ handlers' = [handlers EXCEPT
                       ![p] = NetComponentConstructorAs(@, <<p, Second(a)>>, a, MethodNamesOf(cls))]
    /\ classMeta' = [classMeta EXCEPT !.inst = MapSet(@, <<p, Second(a)>>, cls)]
    /\ UNCHANGED <<lastOp, peerSet, net, execLog, calls, dropped, chanVars, loopVars>>

NextDup ==
    \/ \E p \in Peers, a \in Addrs : Construct(p, a)
    \/ \E p \in Peers, a \in Addrs, cls \in {"Component", "Healer"} : ConstructSecond(p, a, cls)
    \/ \E p \in Peers, a \in Addrs, c \in Channels : StateChannel(p, a, c, SendInitialValue)
    \/ \E from \in Peers, to \in Peers, msg \in DupEnvelopes : Inbound(from, to, msg)
    \/ \E from \in Peers, to \in Peers : Receive(from, to)

SpecDup == InitDup /\ [][NextDup]_vars


(* ---------- several components and channels on one receiving peer ------ *)
(* Replica r1 builds components at two addresses, each with up to two      *)
(* channels, and receives patches for any of them from the Authority.       *)
FrameAddrs == {"a1", "a2"}
FrameChannels == {"hp", "mp"}
FrameInsts == Peers \X FrameAddrs
FrameInitialValue == << <<"value", 100>> >>
FramePatches ==
    {PatchMessage(x[1], x[2], x[3], << <<"value", 80>> >>) :
         x \in FrameAddrs \X FrameChannels \X {1, 2}}

InitFrame ==
    /\ peerSet = {Host, "r1"}
    /\ classMeta = ComponentClass
    /\ handlers = [p \in Peers |-> EmptyMap]
    /\ net = [pq \in Pairs |-> <<>>]
    /\ stateObjs = [i \in FrameInsts |-> EmptyMap]
    /\ revSend = [i \in FrameInsts |-> EmptyMap]
    /\ revRecv = [i \in FrameInsts |-> EmptyMap]
    /\ lastSynced = [i \in FrameInsts |-> EmptyMap]
    /\ microtasks = [p \in Peers |-> <<>>]
    /\ phase = [p \in Peers |-> "idle"]
    /\ execLog = [p \in Peers |-> <<>>]
    /\ hookLog = [i \in FrameInsts |-> <<>>]
    /\ calls = <<>>
    /\ tick = NoTick
    /\ seen = [i \in FrameInsts |-> {}]
    /\ initial = [i \in FrameInsts |-> EmptyMap]
    /\ handles = [i \in FrameInsts |-> EmptyMap]
    /\ dropped = [p \in Peers |-> {}]
    /\ lastOp = Op(0, "none")

NextFrame ==
    \/ \E a \in FrameAddrs : Construct("r1", a)
    \/ \E a \in FrameAddrs, c \in FrameChannels : StateChannel("r1", a, c, FrameInitialValue)
    \/ \E msg \in FramePatches : Inbound(Host, "r1", msg)
    \/ Receive(Host, "r1")

SpecFrame == InitFrame /\ [][NextFrame]_vars


(* ------------- class definitions and instance registration ----------- *)
(* The module defines up to three classes, in this order; each extends a    *)
(* class defined before it or none, and decorates some of two methods.      *)
MetaClasses == <<"A", "B", "C">>
DeclLists ==
    { <<>>, << <<"RunOnServer", "heal">> >>, << <<"Multicast", "emote">> >>,
      << <<"RunOnServer", "heal">>, <<"Multicast", "emote">> >>,
      << <<"Multicast", "emote">>, <<"RunOnServer", "heal">> >> }
Defined == DOMAIN classMeta.parent

InitMeta ==
    /\ classMeta = NoClasses
    /\ InitRest
    /\ peerSet = {Host}
    /\ handlers = [p \in Peers |-> EmptyMap]

DefineClass(cls, parent, decls) ==
    /\ Cardinality(Defined) < Len(MetaClasses)
    /\ cls = MetaClasses[Cardinality(Defined) + 1]
    /\ parent \in Defined \cup {"Object"}
    /\ classMeta' = ClassDefinition(classMeta, cls, parent, decls)
    /\ UNCHANGED <<lastOp, peerSet, net, busVars, chanVars, loopVars>>

(* new cls(); bus.registerInstance(instance, a) on the Authority. *)
NewInstance(cls, a) ==
    /\ cls \in Defined
    /\ ~MapHas(classMeta.inst, a)
    /\ handlers' = [handlers EXCEPT ![Host] = registerInstanceOf(@, classMeta, Host, cls, a)]
    /\ classMeta' = [classMeta EXCEPT !.inst = MapSet(@, a, cls)]
    /\ UNCHANGED <<lastOp, peerSet, net, execLog, calls, dropped, chanVars, loopVars>>

NextMeta ==
    \/ \E j \in 1..Len(MetaClasses), parent \in {MetaClasses[k] : k \in 1..Len(MetaClasses)} \cup {"Object"},
            decls \in DeclLists : DefineClass(MetaClasses[j], parent, decls)
    \/ \E j \in 1..Len(MetaClasses), a \in FrameAddrs : NewInstance(MetaClasses[j], a)

SpecMeta == InitMeta /\ [][NextMeta]_vars


(* ======================= properties: method dispatch ================== *)
Ids(log) == {log[j].id : j \in 1..Len(log)}
Count(log, id) == Cardinality({j \in 1..Len(log) : log[j].id = id})
Bodies(log) == [j \in 1..Len(log) |-> Body(log[j].key, log[j].method, log[j].args, log[j].id)]
WithIds(log, ids) == SelectSeq(log, LAMBDA e : e.id \in ids)

(* The authority-only calls peer p issued while the Authority had the address bound. *)
RpcCallsFrom(p) ==
    SelectSeq(calls, LAMBDA c : c.caller = p /\ c.kind = "RunOnServer" /\ Host \in c.reg)

(* C1: an authority-only call made on a non-Authority peer never runs the   *)
(* body there; over the lossless in-order transport, with the address bound *)
(* on the Authority, the bodies run on the Authority followed by the calls  *)
(* still in flight are exactly the calls the peer issued, in issue order    *)
(* and with the same arguments (so each runs exactly once, in order).       *)
C1_AuthorityOnlyRedirection ==
    \A p \in Replicas :
        /\ \A j \in 1..Len(execLog[p]) : calls[execLog[p][j].id].kind # "RunOnServer"
        /\ LET ids == Ids(RpcCallsFrom(p)) IN
           Bodies(WithIds(execLog[Host], ids)) \o Bodies(WithIds(net[<<p, Host>>], ids))
               = Bodies(RpcCallsFrom(p))

C1_Witness ==
    \E p \in Replicas :
        LET ran == WithIds(execLog[Host], Ids(RpcCallsFrom(p))) IN
        /\ Len(ran) = 2
        /\ ran[1].args # ran[2].args
        /\ net[<<p, Host>>] = <<>>
        /\ execLog[p] = <<>>

Concurrent(c, d) ==
    /\ c.kind = "Multicast" /\ d.kind = "Multicast"
    /\ c.caller # d.caller
    /\ c.key = d.key /\ c.method = d.method
    /\ d.caller \in c.known /\ d.caller \in c.reg
    /\ c.caller \in d.known /\ c.caller \in d.reg
InFlightTo(q, id) ==
    Cardinality({<<p, j>> \in Peers \X (1..MaxCalls * Cardinality(Peers)) :
                     j <= Len(net[<<p, q>>]) /\ net[<<p, q>>][j].id = id})

C11_AuthorityRunsDirectly ==
    [][\A a \in Addrs, m \in RunOnServerMethods, arg \in ArgVals :
          CallRunOnServer(Host, a, m, arg) =>
              /\ execLog' = [execLog EXCEPT ![Host] = Append(@, Body(a, m, arg, Len(calls) + 1))]
              /\ net' = net]_vars

C11_Witness ==
    \E j \in 1..Len(calls) :
        /\ calls[j].kind = "RunOnServer"
        /\ calls[j].caller = Host
        /\ calls[j].known = Peers
        /\ Count(execLog[Host], j) = 1
        /\ \A q \in Peers : InFlightTo(q, j) = 0
        /\ \A q \in Replicas : Count(execLog[q], j) = 0

(* The step is the receipt by peer `to` of an RPC or broadcast envelope for *)
(* which the dispatch finds a handler to run.                               *)
DispatchesCall(from, to) ==
    /\ Receive(from, to)
    /\ Head(net[<<from, to>>]).t \in {"rpc", "multicast"}
    /\ ~(Head(net[<<from, to>>]).t = "rpc" /\ to # Host)
    /\ MapHas(handlers[to], makeTargetKey(Head(net[<<from, to>>]).key,
                                          Head(net[<<from, to>>]).method))

(* C12: dispatching an inbound RPC or broadcast envelope to a bound handler *)
(* runs the body once on the receiving peer, with the envelope's arguments, *)
(* and hands no envelope to the transport: the queues only lose the         *)
(* envelope received.                                                       *)
C12_HandlersRunOriginal ==
    [][\A from \in Peers, to \in Peers :
          DispatchesCall(from, to) =>
              LET msg == Head(net[<<from, to>>]) IN
              /\ execLog' = [execLog EXCEPT ![to] =
                                Append(@, Body(msg.key, msg.method, msg.args, msg.id))]
              /\ net' = [net EXCEPT ![<<from, to>>] = Tail(@)]]_vars

C12_Witness ==
    \E j \in 1..Len(calls), k \in 1..Len(calls) :
        /\ calls[j].kind = "Multicast" /\ calls[j].known = Peers /\ calls[j].reg = Peers
        /\ calls[k].kind = "RunOnServer" /\ calls[k].caller # Host /\ Host \in calls[k].reg
        /\ \A pq \in Pairs : net[pq] = <<>>
        /\ \A q \in Peers : Count(execLog[q], j) = 1
        /\ Count(execLog[Host], k) = 1
        /\ \A q \in Replicas : Count(execLog[q], k) = 0

(* ======================= properties: state channels =================== *)
RevRecv(i, c) == MapGetOr(revRecv[i], c, 0)
MaxOf(S) == CHOOSE x \in S : \A y \in S : y <= x
SeenRevs(i, c) == {sr[2] : sr \in {x \in seen[i] : x[1] = c}}
(* The shallow merge of a patch's data into an object, as key -> value maps. *)
Merged(kv, data) ==
    [k \in ObjKeys(kv) \cup ObjKeys(data) |->
        IF HasKey(data, k) THEN ReflectGet(data, k) ELSE ReflectGet(kv, k)]
(* The step is the receipt, by Replica p, of the n-th envelope the Authority *)
(* handed over for it, a patch for a channel the Replica has created.        *)
ReceivesPatch(p, n) ==
    /\ ReceiveAny(Host, p, n)
    /\ net[<<Host, p>>][n].t = "patch"
    /\ MapHas(stateObjs[<<p, net[<<Host, p>>][n].key>>], net[<<Host, p>>][n].chan)

(* C2: on a Replica, a delivered patch whose revision is at most the        *)
(* channel's recvRevision changes neither mirror, recvRevision nor hook     *)
(* calls; one whose revision is greater is applied: recvRevision becomes    *)
(* its revision, the mirror is the merge of its data, the hook is called.   *)
C2_MonotonicRejection ==
    [][\A p \in Replicas, n \in 1..MaxWrites :
          ReceivesPatch(p, n) =>
              LET msg == Unwire(net[<<Host, p>>][n])
                  i == <<p, msg.key>>
              IN  IF msg.rev <= RevRecv(i, msg.chan)
                  THEN /\ stateObjs'[i] = stateObjs[i]
                       /\ revRecv'[i] = revRecv[i]
                       /\ hookLog'[i] = hookLog[i]
                  ELSE /\ revRecv'[i][msg.chan] = msg.rev
                       /\ AsMap(stateObjs'[i][msg.chan].kv)
                             = Merged(stateObjs[i][msg.chan].kv, msg.data)
                       /\ hookLog'[i] = Append(hookLog[i], msg.chan)]_vars

(* The synchronous block of Authority code has ended and its passes have run. *)
BlockDone == phase[Host] = "idle"
HostObj(ac) == stateObjs[<<Host, ac[1]>>][ac[2]].kv

(* C3 as claimed: after a block with N >= 1 value-changing mutations of a   *)
(* channel, exactly one patch was sent for it, carrying its final state.    *)
C3_ExactlyOnePatch ==
    BlockDone =>
        \A ac \in Addrs \X Channels :
            tick.mut[ac] >= 1 =>
                /\ Len(tick.sent[ac]) = 1
                /\ tick.sent[ac][1].data = HostObj(ac)

(* C3 as amended: after a block with N >= 1 value-changing mutations of a   *)
(* channel, one patch was sent for it if its serialized state after the     *)
(* last mutation differs from the snapshot last transmitted, and none if it *)
(* is equal; a patch that was sent carries the state after the last         *)
(* mutation.                                                                *)
C3_OnePatchIfChanged ==
    BlockDone =>
        \A ac \in Addrs \X Channels :
            tick.mut[ac] >= 1 =>
                /\ Len(tick.sent[ac]) =
                      IF tick.base[ac] = << JsonStringify(HostObj(ac)) >> THEN 0 ELSE 1
                /\ Len(tick.sent[ac]) = 1 => tick.sent[ac][1].data = HostObj(ac)

C3_Witness ==
    /\ BlockDone
    /\ \E ac \in Addrs \X Channels :
          /\ tick.mut[ac] >= 2
          /\ Len(tick.sent[ac]) = 1
          /\ tick.sent[ac][1].rev >= 2
          /\ tick.sent[ac][1].data = HostObj(ac)

(* C4: delivering to a Replica a patch that was delivered to it before      *)
(* (same channel, same revision, hence the same data) leaves the Replica's  *)
(* channel objects and recvRevisions as they are.                           *)
C4_DuplicateIsNoOp ==
    [][\A p \in Replicas, n \in 1..MaxWrites :
          (/\ ReceiveAny(Host, p, n)
           /\ net[<<Host, p>>][n].t = "patch"
           /\ <<net[<<Host, p>>][n].chan, net[<<Host, p>>][n].rev>>
                  \in seen[<<p, net[<<Host, p>>][n].key>>])
              => /\ stateObjs' = stateObjs
                 /\ revRecv' = revRecv]_vars

C4_Witness ==
    \E i \in Replicas \X Addrs, c \in Channels :
        /\ lastOp = Op(RevRecv(i, c), "stale")
        /\ MapHas(stateObjs[i], c)
        /\ hookLog[i] = <<c>>
        /\ SeenRevs(i, c) = {RevRecv(i, c)}

(* C5: on the Authority, assigning to a field the value it already holds    *)
(* schedules no pass, sends nothing and changes no revision or snapshot.    *)
C5_SameValueNoSync ==
    [][\A a \in Addrs, c \in Channels, w \in Writes :
          (/\ ProxySet(a, c, w[1], w[2])
           /\ HasKey(stateObjs[<<Host, a>>][c].kv, w[1])
           /\ ReflectGet(stateObjs[<<Host, a>>][c].kv, w[1]) = w[2])
              => UNCHANGED <<microtasks, net, stateObjs, revSend, lastSynced>>]_vars

C5_Witness ==
    /\ tick.same
    /\ BlockDone
    /\ \A ac \in Addrs \X Channels : tick.mut[ac] = 0 /\ tick.sent[ac] = <<>>
    /\ \E a \in Addrs, c \in Channels : MapHas(revSend[<<Host, a>>], c)

C9_FirstPatchSyncsMirror ==
    /\ [][\A p \in Peers :
             (RunMicrotask(p) /\ revSend' # revSend /\ ~MapHas(revSend[<<p, Head(microtasks[p])[1]>>],
                                                           Head(microtasks[p])[2]))
                 => LET a == Head(microtasks[p])[1]
                        c == Head(microtasks[p])[2]
                    IN  /\ revSend'[<<p, a>>][c] = 1
                        /\ \A q \in peerSet \ {p} :
                              net'[<<p, q>>] =
                                  Append(net[<<p, q>>],
                                         [t |-> "patch", key |-> a, method |-> "", args |-> 0,
                                          chan |-> c, rev |-> 1,
                                          data |-> JsonStringify(stateObjs[<<p, a>>][c].kv),
                                          id |-> 0, reliable |-> TRUE])]_vars
    /\ [][\A p \in Replicas, n \in 1..MaxWrites :
             (/\ ReceivesPatch(p, n)
              /\ net[<<Host, p>>][n].rev = 1
              /\ RevRecv(<<p, net[<<Host, p>>][n].key>>, net[<<Host, p>>][n].chan) = 0
              /\ MapHas(initial[<<Host, net[<<Host, p>>][n].key>>], net[<<Host, p>>][n].chan)
              /\ initial[<<p, net[<<Host, p>>][n].key>>][net[<<Host, p>>][n].chan]
                    = initial[<<Host, net[<<Host, p>>][n].key>>][net[<<Host, p>>][n].chan])
                 => LET msg == Unwire(net[<<Host, p>>][n])
                        i == <<p, msg.key>>
                    IN  /\ revRecv'[i][msg.chan] = 1
                        /\ AsMap(stateObjs'[i][msg.chan].kv) = AsMap(msg.data)]_vars


(* ==================== properties: inbound dispatch ==================== *)
(* The step is the receipt by peer `to` of the oldest envelope from `from`. *)
Inbox(from, to) == Head(net[<<from, to>>])
OnlyDropped(from, to) ==
    /\ net' = [net EXCEPT ![<<from, to>>] = Tail(@)]
    /\ UNCHANGED <<handlers, execLog, stateObjs, revSend, revRecv, lastSynced, hookLog,
                   seen, microtasks, lastOp>>

(* C13: an RPC envelope received by a peer that is not the Authority runs   *)
(* no handler, changes no channel object, revision or queue and raises      *)
(* nothing, bound handler or not; a broadcast or patch envelope with a      *)
(* bound handler is dispatched to it on the Authority and on a Replica.     *)
C13_RpcDroppedOffAuthority ==
    [][\A from \in Peers, to \in Peers :
          Receive(from, to) =>
              /\ (Inbox(from, to).t = "rpc" /\ to # Host) => OnlyDropped(from, to)
              /\ (Inbox(from, to).t = "multicast"
                     /\ MapHas(handlers[to], TargetKey(Inbox(from, to))))
                   => execLog'[to] = Append(execLog[to],
                                            Body(Inbox(from, to).key, Inbox(from, to).method,
                                                 Inbox(from, to).args, Inbox(from, to).id))
              /\ (Inbox(from, to).t = "patch"
                     /\ MapHas(handlers[to], TargetKey(Inbox(from, to))))
                   => <<Inbox(from, to).chan, Inbox(from, to).rev>>
                          \in seen'[<<to, Inbox(from, to).key>>]]_vars

C13_Witness ==
    \E r \in Replicas, a \in Addrs, m \in RunOnServerMethods, c \in Channels :
        /\ MapHas(handlers[r], makeTargetKey(a, m))
        /\ \E d \in dropped[r] : d.t = "rpc" /\ d.why = "nothost"
        /\ execLog[r] = <<>>
        /\ Len(execLog[Host]) = 1
        /\ seen[<<r, a>>] # {}
        /\ MapHas(revRecv[<<r, a>>], c)

(* C14: an envelope of any kind received by a peer that has no handler      *)
(* bound for its target key runs nothing and changes nothing: no channel    *)
(* object, revision, handler table entry or queue other than the removal of *)
(* the envelope, and nothing is raised.                                     *)
C14_UnboundTargetDropped ==
    [][\A from \in Peers, to \in Peers :
          (Receive(from, to) /\ ~MapHas(handlers[to], TargetKey(Inbox(from, to))))
              => OnlyDropped(from, to)]_vars

C14_Witness ==
    \A t \in {"rpc", "multicast", "patch"} :
        \E p \in Peers : \E d \in dropped[p] : d.t = t /\ d.why = "nohandler"


(* ================= properties: merge, sealing and handles ============= *)
Mirror(p, n) == stateObjs[<<p, net[<<Host, p>>][n].key>>][net[<<Host, p>>][n].chan].kv
(* The step is Replica p applying the n-th patch: its revision is greater   *)
(* than recvRevision and the channel exists.                                *)
AppliesPatch(p, n) ==
    /\ ReceivesPatch(p, n)
    /\ net[<<Host, p>>][n].rev
           > RevRecv(<<p, net[<<Host, p>>][n].key>>, net[<<Host, p>>][n].chan)

(* C15: when a Replica applies a patch, the mirror afterwards is the        *)
(* shallow merge of the patch data into it: every key of the data holds the *)
(* data's value, new keys included, and every other key keeps its value.    *)
C15_ShallowMerge ==
    [][\A p \in Replicas, n \in 1..MaxWrites :
          AppliesPatch(p, n) =>
              AsMap(Mirror(p, n)') = Merged(Mirror(p, n), Unwire(net[<<Host, p>>][n]).data)]_vars

(* C16: when a Replica applies a patch whose data lacks a key the mirror    *)
(* holds, the mirror still holds that key with its old value afterwards,    *)
(* and so differs from the object the Authority sent.                       *)
C16_DeletionNotPropagated ==
    [][\A p \in Replicas, n \in 1..MaxWrites :
          AppliesPatch(p, n) =>
              \A k \in ObjKeys(Mirror(p, n)) \ ObjKeys(Unwire(net[<<Host, p>>][n]).data) :
                  /\ HasKey(Mirror(p, n)', k)
                  /\ ReflectGet(Mirror(p, n)', k) = ReflectGet(Mirror(p, n), k)
                  /\ AsMap(Mirror(p, n)') # AsMap(Unwire(net[<<Host, p>>][n]).data)]_vars

(* The Authority deleted k (created with it, now without), the pass ran and *)
(* the Replica applied its patch, the latest: the mirror still has k.       *)
C16_Witness ==
    \E r \in Replicas, a \in Addrs, c \in Channels, k \in Keys :
        /\ BlockDone
        /\ MapHas(initial[<<Host, a>>], c) /\ HasKey(initial[<<Host, a>>][c], k)
        /\ ~HasKey(HostObj(<<a, c>>), k)
        /\ MapHas(lastSynced[<<Host, a>>], c)
        /\ lastSynced[<<Host, a>>][c] = JsonStringify(HostObj(<<a, c>>))
        /\ lastOp = Op(revSend[<<Host, a>>][c], "applied")
        /\ RevRecv(<<r, a>>, c) = revSend[<<Host, a>>][c]
        /\ HasKey(stateObjs[<<r, a>>][c].kv, k)
        /\ AsMap(stateObjs[<<r, a>>][c].kv) # AsMap(HostObj(<<a, c>>))

(* C17: on a Replica every direct write to the object stateChannel returned *)
(* (assigning a field, existing or new, or deleting an existing field)      *)
(* raises and leaves the Replica's channel objects unchanged.               *)
C17_ReplicaWritesFailFast ==
    [][\A p \in Replicas, a \in Addrs, c \in Channels :
          /\ \A w \in Writes :
                DirectSet(p, a, c, w[1], w[2])
                    => (lastOp'.outcome = "TypeError" /\ stateObjs' = stateObjs)
          /\ \A k \in Keys :
                (DirectDelete(p, a, c, k) /\ HasKey(stateObjs[<<p, a>>][c].kv, k))
                    => (lastOp'.outcome = "TypeError" /\ stateObjs' = stateObjs)]_vars

(* C18: with every envelope produced by the send paths, no dispatch of an   *)
(* inbound envelope raises: no patch application ends in an exception.      *)
C18_DispatchNeverThrows == lastOp.outcome # "threw"

(* C19: a stateChannel call for a name the instance has created changes no  *)
(* channel object, revision or snapshot and schedules and sends nothing,    *)
(* whatever initial value it is given; a write that succeeds through the    *)
(* object it returned is read back from the channel's state.                *)
C19_StateChannelIdempotent ==
    /\ [][\A p \in Peers, a \in Addrs, c \in Channels, initialValue \in InitialValues :
             StateChannelAgain(p, a, c, initialValue)
                 => UNCHANGED <<stateObjs, revSend, revRecv, lastSynced, initial,
                                microtasks, net>>]_vars
    /\ [][\A p \in Peers, a \in Addrs, c \in Channels, w \in Writes :
             (DirectSet(p, a, c, w[1], w[2]) /\ lastOp'.outcome = "written")
                 => /\ HasKey(stateObjs'[<<p, a>>][c].kv, w[1])
                    /\ ReflectGet(stateObjs'[<<p, a>>][c].kv, w[1]) = w[2]]_vars

C19_Witness ==
    \E a \in Addrs, c \in Channels :
        /\ lastOp = Op(0, "existing")
        /\ \A r \in Replicas : ~MapHas(stateObjs[<<r, a>>], c)
        /\ MapGetOr(handles[<<Host, a>>], c, {}) = {"proxy", "base"}
        /\ MapGetOr(revSend[<<Host, a>>], c, 0) >= 1
        /\ MapHas(lastSynced[<<Host, a>>], c)
        /\ \A initialValue \in InitialValues : AsMap(HostObj(<<a, c>>)) # AsMap(initialValue)

(* C20: on the Authority a value-changing assignment or the deletion of a   *)
(* field, made through the object any stateChannel call returned (the first *)
(* call or a repeated one), schedules a synchronization of the channel.     *)
C20_EveryHandleTracks ==
    [][\A a \in Addrs, c \in Channels :
          /\ \A w \in Writes :
                ((ProxySet(a, c, w[1], w[2]) \/ DirectSet(Host, a, c, w[1], w[2]))
                    /\ SetTrapChanges(stateObjs[<<Host, a>>][c].kv, w[1], w[2]))
                  => microtasks'[Host] = Append(microtasks[Host], <<a, c>>)
          /\ \A k \in Keys :
                ((ProxyDelete(a, c, k) \/ DirectDelete(Host, a, c, k))
                    /\ HasKey(stateObjs[<<Host, a>>][c].kv, k))
                  => microtasks'[Host] = Append(microtasks[Host], <<a, c>>)]_vars


(* ================= properties: revisions and scheduling =============== *)
(* The patches for channel c of address a among the envelopes the Authority *)
(* has handed over for peer r, in emission order.                           *)
PatchesFor(r, a, c) ==
    SelectSeq(net[<<Host, r>>], LAMBDA e : e.t = "patch" /\ e.key = a /\ e.chan = c)
SendRev(a, c) == MapGetOr(revSend[<<Host, a>>], c, 0)

(* C22: for every channel of the Authority, the patches emitted carry the   *)
(* revisions 1, 2, 3, ... in emission order and sendRevision is their       *)
(* number; sendRevision never decreases and changes only in a step that     *)
(* emits a patch, by one.                                                   *)
C22_SendRevisionCounts ==
    /\ [](\A r \in peerSet \ {Host}, a \in Addrs, c \in Channels :
             /\ \A j \in 1..Len(PatchesFor(r, a, c)) : PatchesFor(r, a, c)[j].rev = j
             /\ SendRev(a, c) = Len(PatchesFor(r, a, c)))
    /\ [][\A a \in Addrs, c \in Channels :
             /\ SendRev(a, c)' >= SendRev(a, c)
             /\ SendRev(a, c)' # SendRev(a, c)
                  => /\ SendRev(a, c)' = SendRev(a, c) + 1
                     /\ RunMicrotask(Host)
                     /\ \A r \in peerSet \ {Host} :
                           Len(PatchesFor(r, a, c)') = Len(PatchesFor(r, a, c)) + 1]_vars

C22_Witness ==
    \E r \in Replicas, a \in Addrs, c \in Channels :
        /\ SendRev(a, c) = 3
        /\ Len(PatchesFor(r, a, c)) = 3
        /\ PatchesFor(r, a, c)[3].rev = 3
        /\ PatchesFor(r, a, c)[1].data # PatchesFor(r, a, c)[2].data


PatchCount(q) == Len(SelectSeq(q, LAMBDA e : e.t = "patch"))

(* C23: no peer other than the Authority ever hands a patch envelope to the *)
(* transport or advances a send revision or snapshot, whatever its          *)
(* component code does (stateChannel calls, writes to the mirror, patch     *)
(* applications, syncState calls).                                          *)
C23_SingleWriter ==
    /\ [](\A r \in Replicas, q \in Peers, a \in Addrs :
             /\ PatchCount(net[<<r, q>>]) = 0
             /\ revSend[<<r, a>>] = EmptyMap
             /\ lastSynced[<<r, a>>] = EmptyMap)
    /\ [][\A r \in Replicas, a \in Addrs, c \in Channels :
             SyncStateCall(r, a, c) => UNCHANGED <<net, revSend, lastSynced, stateObjs>>]_vars

C23_Witness ==
    \E r \in Replicas, a \in Addrs, c \in Channels :
        /\ lastOp = Op(0, "nothost")
        /\ MapHas(stateObjs[<<r, a>>], c)
        /\ RevRecv(<<r, a>>, c) >= 1
        /\ hookLog[<<r, a>>] # <<>>
        /\ AsMap(stateObjs[<<r, a>>][c].kv) # AsMap(initial[<<r, a>>][c])
        /\ AsMap(stateObjs[<<r, a>>][c].kv) # AsMap(HostObj(<<a, c>>))


(* C24: when a Replica that created the channel with the Authority's        *)
(* initial value receives a patch after earlier ones were lost (its         *)
(* revision is beyond recvRevision + 1), the patch is applied and, no key   *)
(* having been deleted on the Authority, the mirror equals the patch data.  *)
C24_SelfHealAfterLoss ==
    [][\A p \in Replicas, n \in 1..MaxWrites :
          (/\ ReceivesPatch(p, n)
           /\ net[<<Host, p>>][n].rev
                  > RevRecv(<<p, net[<<Host, p>>][n].key>>, net[<<Host, p>>][n].chan) + 1
           /\ ~tick.del
           /\ initial[<<p, net[<<Host, p>>][n].key>>][net[<<Host, p>>][n].chan]
                  = initial[<<Host, net[<<Host, p>>][n].key>>][net[<<Host, p>>][n].chan])
              => /\ RevRecv(<<p, net[<<Host, p>>][n].key>>, net[<<Host, p>>][n].chan)'
                        = net[<<Host, p>>][n].rev
                 /\ AsMap(Mirror(p, n)') = AsMap(Unwire(net[<<Host, p>>][n]).data)]_vars

Pending(a, c) ==
    Cardinality({j \in 1..Len(microtasks[Host]) : microtasks[Host][j] = <<a, c>>})

(* C25: on the Authority at most one synchronization pass is pending per    *)
(* channel at any time.                                                     *)
C25_OnePendingPass == \A a \in Addrs, c \in Channels : Pending(a, c) <= 1

(* C26: a mutation through the proxy hands nothing to the transport and     *)
(* changes no send revision or snapshot in its own step; an envelope is     *)
(* handed over only by a pass run after the synchronous block has ended,    *)
(* and it carries the channel object as it is when the pass runs.           *)
C26_DeferredEmission ==
    /\ [][\A a \in Addrs, c \in Channels :
             /\ \A w \in Writes :
                   ProxySet(a, c, w[1], w[2]) => UNCHANGED <<net, revSend, lastSynced>>
             /\ \A k \in Keys :
                   ProxyDelete(a, c, k) => UNCHANGED <<net, revSend, lastSynced>>]_vars
    /\ [][net' # net =>
             /\ RunMicrotask(Host)
             /\ phase[Host] = "drain"
             /\ \A r \in peerSet \ {Host} :
                   /\ Len(net'[<<Host, r>>]) = Len(net[<<Host, r>>]) + 1
                   /\ net'[<<Host, r>>][Len(net'[<<Host, r>>])].t = "patch"
                   /\ net'[<<Host, r>>][Len(net'[<<Host, r>>])].data =
                         JsonStringify(HostObj(Head(microtasks[Host])))]_vars

C26_Witness ==
    \E a \in Addrs, c \in Channels, r \in Replicas :
        /\ phase[Host] = "drain"
        /\ Pending(a, c) >= 1
        /\ tick.mut[<<a, c>>] >= 2
        /\ Len(tick.sent[<<a, c>>]) = 1
        /\ net[<<Host, r>>] # <<>>
        /\ net[<<Host, r>>][Len(net[<<Host, r>>])].data = JsonStringify(HostObj(<<a, c>>))
        /\ MapHas(initial[<<Host, a>>], c)
        /\ AsMap(HostObj(<<a, c>>)) # AsMap(initial[<<Host, a>>][c])

(* The state last transmitted for a channel: the last snapshot sent or, if  *)
(* no patch was emitted yet, the value the channel was created with.        *)
LastTransmitted(a, c) ==
    IF MapHas(lastSynced[<<Host, a>>], c) THEN lastSynced[<<Host, a>>][c]
    ELSE JsonStringify(initial[<<Host, a>>][c])

(* C27: a synchronization pass emits a patch and advances sendRevision if   *)
(* and only if the serialized channel object differs from the state last    *)
(* transmitted, the creation value counting as transmitted before the       *)
(* first patch.                                                             *)
C27_EmitsIffChanged ==
    [][RunMicrotask(Host) =>
          ((revSend' # revSend /\ net' # net)
              <=> JsonStringify(HostObj(Head(microtasks[Host])))
                     # LastTransmitted(Head(microtasks[Host])[1], Head(microtasks[Host])[2]))]_vars

(* C29: a patch applied to an existing channel invokes the post-patch hook  *)
(* for that channel once; a patch dropped by the revision guard invokes     *)
(* nothing.                                                                 *)
C29_HookOncePerApplied ==
    [][\A p \in Replicas, n \in 1..MaxWrites :
          ReceivesPatch(p, n) =>
              hookLog'[<<p, net[<<Host, p>>][n].key>>] =
                  IF AppliesPatch(p, n)
                  THEN Append(hookLog[<<p, net[<<Host, p>>][n].key>>], net[<<Host, p>>][n].chan)
                  ELSE hookLog[<<p, net[<<Host, p>>][n].key>>]]_vars

(* C30: when a peer receives a patch for channel c of the component at      *)
(* address a, whether the patch is applied or dropped, the channel object   *)
(* and recvRevision of every other channel of that component and of every   *)
(* channel of the components at other addresses on the peer stay as they    *)
(* are; and the patch is dropped exactly when its revision is at most the   *)
(* recvRevision of its own channel, whatever the other channels received.   *)
C30_PatchFrame ==
    [][(/\ Receive(Host, "r1")
        /\ Head(net[<<Host, "r1">>]).t = "patch")
          => LET msg == Unwire(Head(net[<<Host, "r1">>]))
                 own == <<"r1", msg.key>>
             IN  /\ \A i \in FrameInsts, c \in FrameChannels :
                       (i # own \/ c # msg.chan) =>
                           /\ MapHas(stateObjs'[i], c) = MapHas(stateObjs[i], c)
                           /\ MapHas(stateObjs[i], c) => stateObjs'[i][c] = stateObjs[i][c]
                           /\ MapHas(revRecv'[i], c) = MapHas(revRecv[i], c)
                           /\ MapHas(revRecv[i], c) => revRecv'[i][c] = revRecv[i][c]
                 /\ Constructed("r1", msg.key) =>
                       IF msg.rev <= RevRecv(own, msg.chan)
                       THEN /\ lastOp' = Op(msg.rev, "stale")
                            /\ revRecv'[own] = revRecv[own]
                            /\ stateObjs'[own] = stateObjs[own]
                       ELSE /\ lastOp'.outcome # "stale"
                            /\ revRecv'[own][msg.chan] = msg.rev]_vars

(* Channel hp of a1 is at revision 2; then revision 1 for channel mp of a1  *)
(* and for channel hp of a2 were applied, a1.hp staying as it was.          *)
C30_Witness ==
    /\ RevRecv(<<"r1", "a1">>, "hp") = 2
    /\ RevRecv(<<"r1", "a1">>, "mp") = 1
    /\ RevRecv(<<"r1", "a2">>, "hp") = 1
    /\ MapHas(stateObjs[<<"r1", "a1">>], "hp")
    /\ MapHas(stateObjs[<<"r1", "a1">>], "mp")
    /\ MapHas(stateObjs[<<"r1", "a2">>], "hp")
    /\ hookLog[<<"r1", "a1">>] = <<"hp", "mp">>
    /\ hookLog[<<"r1", "a2">>] = <<"hp">>
    /\ lastOp = Op(1, "applied")
    /\ stateObjs[<<"r1", "a2">>]["hp"].kv = << <<"value", 80>> >>

(* The classes of an instance's prototype chain, closest first, and those   *)
(* of them that declare a decorated method of a given kind and name.        *)
RECURSIVE PrototypeChain(_)
PrototypeChain(cls) ==
    IF cls = "Object" THEN <<>> ELSE << cls >> \o PrototypeChain(classMeta.parent[cls])
Declaring(cls, key) == SelectSeq(PrototypeChain(cls), LAMBDA c : key \in classMeta.decl[c])

(* C21: for an instance of any class, collectMethodMeta returns at most one *)
(* descriptor per (kind, name); and when two or more classes of the         *)
(* instance's prototype chain declare a decorated method of the same kind   *)
(* and name, the descriptor returned, and the handler registerInstance      *)
(* bound for an instance of that class, is the one declared by the closest. *)
C21_MostDerivedWins ==
    /\ \A cls \in Defined :
          LET out == collectMethodMetaOf(classMeta, cls)
          IN  /\ \A j, k \in 1..Len(out) : j # k => MetaKeyOf(out[j]) # MetaKeyOf(out[k])
              /\ \A j \in 1..Len(out) :
                    Len(Declaring(cls, MetaKeyOf(out[j]))) >= 2 =>
                        out[j].original = <<Declaring(cls, MetaKeyOf(out[j]))[1], out[j].name>>
    /\ \A a \in DOMAIN classMeta.inst :
          \A key \in {<<"RunOnServer", "heal">>, <<"Multicast", "emote">>} :
              Len(Declaring(classMeta.inst[a], key)) >= 2 =>
                  /\ MapHas(handlers[Host], makeTargetKey(a, key[2]))
                  /\ handlers[Host][makeTargetKey(a, key[2])].original
                        = <<Declaring(classMeta.inst[a], key)[1], key[2]>>

(* A patch for channel c of the Authority's component at a is sent in this step. *)
PatchSent(a, c) ==
    MapGetOr(revSend'[<<Host, a>>], c, 0) # MapGetOr(revSend[<<Host, a>>], c, 0)
(* A write through nested plain objects schedules a pass of the channel if  *)
(* it changes the value; a write inside an array or a Map schedules nothing *)
(* and sends nothing.                                                       *)
NestedWriteEffect ==
    \A a \in Addrs, c \in Channels, w \in NestedWrites :
        NestedWrite(a, c, w[1], w[2], w[3]) =>
            LET kv == stateObjs[<<Host, a>>][c].kv IN
            IF \A j \in 1..Len(w[1]) :
                     Deref(ReflectGet(ValueAt(kv, SubSeq(w[1], 1, j - 1)), w[1][j])).t = "obj"
            THEN /\ SetTrapChanges(ValueAt(kv, w[1]), w[2], w[3])
                      => microtasks'[Host] = Append(microtasks[Host], <<a, c>>)
                 /\ ~SetTrapChanges(ValueAt(kv, w[1]), w[2], w[3])
                      => UNCHANGED <<microtasks, stateObjs>>
                 /\ UNCHANGED <<net, revSend, lastSynced>>
            ELSE UNCHANGED <<microtasks, net, revSend, lastSynced>>

(* C28 as claimed: on the Authority a value-changing assignment to a field  *)
(* of a nested plain object, at any depth, schedules a synchronization of   *)
(* the channel; an in-place mutation of an array or Map held in the channel *)
(* schedules nothing, and no patch carrying it is sent unless a tracked     *)
(* assignment or deletion on the channel was made after it.                 *)
C28_NeedsLaterAssignment ==
    [][/\ NestedWriteEffect
       /\ \A a \in Addrs, c \in Channels :
             PatchSent(a, c) => tick.raw[<<a, c>>] # "raw"]_vars

(* C28 as amended: the same, except that the in-place mutation is carried   *)
(* by the patch of whichever pass of the channel runs after it: a pass      *)
(* queued by a tracked assignment or deletion on the channel, made before   *)
(* the mutation in the same synchronous block or after it, or a call of     *)
(* syncState by the component; a pass is queued only by a tracked mutation. *)
C28_NeedsSomePass ==
    [][/\ NestedWriteEffect
       /\ \A a \in Addrs, c \in Channels :
             PatchSent(a, c) =>
                 \/ RunMicrotask(Host) /\ Head(microtasks[Host]) = <<a, c>>
                 \/ SyncStateCall(Host, a, c)
       /\ Len(microtasks'[Host]) > Len(microtasks[Host]) =>
             \E a \in Addrs, c \in Channels :
                 /\ microtasks'[Host] = Append(microtasks[Host], <<a, c>>)
                 /\ tick'.raw[<<a, c>>] # "raw"
                 /\ \/ \E k \in Keys, v \in {80, 100} : ProxySet(a, c, k, v)
                    \/ \E k \in Keys : ProxyDelete(a, c, k)
                    \/ \E w \in NestedWrites : NestedWrite(a, c, w[1], w[2], w[3])]_vars

(* The array was pushed to and the Map set, in place, and a field two       *)
(* levels down was assigned; the Replica's mirror holds the pushed element  *)
(* and the nested field after the patch of a later pass was applied.        *)
C28_Witness ==
    /\ MapHas(stateObjs[<<Host, "a1">>], "hp")
    /\ MapHas(stateObjs[<<"r1", "a1">>], "hp")
    /\ ReflectGet(stateObjs[<<Host, "a1">>]["hp"].kv, "index") = 1008
    /\ ReflectGet(stateObjs[<<"r1", "a1">>]["hp"].kv, "items") = 1006
    /\ ReflectGet(stateObjs[<<"r1", "a1">>]["hp"].kv, "outer") = 1004
    /\ ReflectGet(stateObjs[<<"r1", "a1">>]["hp"].kv, "value") = 100
    /\ tick.raw[<<"a1", "hp">>] = "none"
    /\ lastOp.outcome = "applied"


(* ===================== properties: the bus's send paths =============== *)
(* In this step peer p hands the transport one envelope of the given kind,  *)
(* flagged reliable, for each other peer of peers(), and nothing else.      *)
SendsToOthers(p, kind) ==
    \A q \in Peers, r \in Peers :
        IF q = p /\ r \in peerSet \ {p}
        THEN /\ Len(net'[<<q, r>>]) = Len(net[<<q, r>>]) + 1
             /\ SubSeq(net'[<<q, r>>], 1, Len(net[<<q, r>>])) = net[<<q, r>>]
             /\ net'[<<q, r>>][Len(net'[<<q, r>>])].t = kind
             /\ net'[<<q, r>>][Len(net'[<<q, r>>])].reliable = TRUE
        ELSE net'[<<q, r>>] = net[<<q, r>>]

(* C31: a broadcast call, and a pass that sends a patch, hand the transport *)
(* exactly one reliable envelope for every peer of peers() other than the   *)
(* sender and none for the sender; no envelope is ever in transit from a    *)
(* peer to itself.                                                          *)
C31_SendsToEveryOtherPeer ==
    [][/\ \A p \in Peers, a \in Addrs, m \in MulticastMethods, arg \in ArgVals :
             CallMulticast(p, a, m, arg) => SendsToOthers(p, "multicast")
       /\ \A a \in Addrs, c \in Channels :
             (RunMicrotask(Host) /\ PatchSent(a, c)) => SendsToOthers(Host, "patch")
       /\ \A p \in Peers : net'[<<p, p>>] = <<>>]_vars

(* With three peers in the session, a broadcast of r1 is in transit to the  *)
(* other two and a patch of the Authority is in transit to both Replicas.   *)
C31_Witness ==
    /\ peerSet = Peers
    /\ \E j \in 1..Len(calls) :
          /\ calls[j].kind = "Multicast" /\ calls[j].caller = "r1" /\ calls[j].known = Peers
          /\ InFlightTo(Host, j) = 1 /\ InFlightTo("r2", j) = 1 /\ InFlightTo("r1", j) = 0
    /\ \A r \in Replicas :
          \E n \in 1..Len(net[<<Host, r>>]) :
              net[<<Host, r>>][n].t = "patch" /\ net[<<Host, r>>][n].reliable
    /\ \A p \in Peers : net[<<p, p>>] = <<>>

(* C32: sendRpcToHost on the Authority runs the handler bound for the       *)
(* address and method within the call, or nothing if none is bound, and     *)
(* hands nothing to the transport; on another peer it runs nothing and      *)
(* hands the transport one reliable RPC envelope for the Authority alone;   *)
(* no RPC envelope is ever in transit to a peer other than the Authority.   *)
C32_RpcToAuthorityOnly ==
    [][/\ \A p \in Peers, a \in Addrs, m \in RunOnServerMethods, arg \in ArgVals :
             SendRpcToHost(p, a, m, arg) =>
                 IF p = Host
                 THEN /\ net' = net
                      /\ execLog' =
                            IF MapHas(handlers[Host], makeTargetKey(a, m))
                            THEN [execLog EXCEPT
                                     ![Host] = Append(@, Body(a, m, arg, Len(calls) + 1))]
                            ELSE execLog
                 ELSE /\ execLog' = execLog
                      /\ net' = [net EXCEPT ![<<p, Host>>] =
                                    Append(@, [t |-> "rpc", key |-> a, method |-> m,
                                               args |-> arg, chan |-> "", rev |-> 0,
                                               data |-> <<>>, id |-> Len(calls) + 1,
                                               reliable |-> TRUE])]
       /\ \A q \in Peers, r \in Peers \ {Host} :
             \A n \in 1..Len(net'[<<q, r>>]) : net'[<<q, r>>][n].t # "rpc"]_vars

(* The Authority called sendRpcToHost with the handler bound and the body   *)
(* ran there; r1 called it and its envelope is in transit to the Authority  *)
(* only, no body having run for it.                                         *)
C32_Witness ==
    \E j, k \in 1..Len(calls) :
        /\ calls[j].kind = "sendRpcToHost" /\ calls[j].caller = Host
        /\ calls[k].kind = "sendRpcToHost" /\ calls[k].caller = "r1"
        /\ calls[k].known = Peers
        /\ Count(execLog[Host], j) = 1
        /\ \A q \in Peers : InFlightTo(q, j) = 0
        /\ InFlightTo(Host, k) = 1
        /\ \A q \in Replicas : InFlightTo(q, k) = 0
        /\ \A q \in Peers : Count(execLog[q], k) = 0

(* C33: a peer's handler table holds one handler per target key.  When a    *)
(* second instance is registered under an address in use, the keys of its   *)
(* decorated methods and the patch key are rebound to it and the others     *)
(* keep their handler; an inbound envelope then acts on the instance its    *)
(* key is bound to and on no other instance, and runs at most one body.     *)
C33_LatestInstanceHandles ==
    [][/\ \A p \in Peers, a \in Addrs, cls \in {"Component", "Healer"} :
             ConstructSecond(p, a, cls) =>
                 /\ DOMAIN handlers'[p] = DOMAIN handlers[p]
                 /\ \A key \in DOMAIN handlers[p] :
                       IF key[1] = a /\ key[2] \in MethodNamesOf(cls) \cup {PatchMethod}
                       THEN handlers'[p][key].inst = <<p, Second(a)>>
                       ELSE handlers'[p][key] = handlers[p][key]
       /\ \A from \in Peers, to \in Peers :
             Receive(from, to) =>
                 LET key == TargetKey(Head(net[<<from, to>>])) IN
                 /\ \A i \in DupInsts :
                       (~MapHas(handlers[to], key) \/ i # handlers[to][key].inst) =>
                           /\ stateObjs'[i] = stateObjs[i]
                           /\ revRecv'[i] = revRecv[i]
                           /\ hookLog'[i] = hookLog[i]
                 /\ Len(execLog'[to]) <= Len(execLog[to]) + 1
                 /\ \A q \in Peers \ {to} : execLog'[q] = execLog[q]]_vars

(* On r1 a second instance, of the class with one decorated method, was     *)
(* registered at a1 after the first had created its channel: the shared     *)
(* method and the patch receiver are bound to the second, the other method  *)
(* still to the first, and a patch then delivered was taken by the second   *)
(* instance, the first one's channel and recvRevision staying as they were. *)
C33_Witness ==
    /\ MapHas(classMeta.inst, <<"r1", Second("a1")>>)
    /\ classMeta.inst[<<"r1", Second("a1")>>] = "Healer"
    /\ handlers["r1"][makeTargetKey("a1", "heal")].inst = <<"r1", Second("a1")>>
    /\ handlers["r1"][makeTargetKey("a1", PatchMethod)].inst = <<"r1", Second("a1")>>
    /\ handlers["r1"][makeTargetKey("a1", "emote")].inst = <<"r1", "a1">>
    /\ MapHas(stateObjs[<<"r1", "a1">>], "hp")
    /\ stateObjs[<<"r1", "a1">>]["hp"].kv = SendInitialValue
    /\ revRecv[<<"r1", "a1">>] = EmptyMap
    /\ MapGetOr(revRecv[<<"r1", Second("a1")>>], "hp", 0) = 1
    /\ lastOp = Op(1, "nochannel")

C35_RecvAtMostSend ==
    \A r \in Replicas, a \in Addrs, c \in Channels : RevRecv(<<r, a>>, c) <= SendRev(a, c)

(* The Authority is at revision 2 or more; the Replica took the latest      *)
(* patch first and revision 1 afterwards, which it dropped: it has caught   *)
(* up with the Authority, not passed it.                                    *)
C35_Witness ==
    \E r \in Replicas, a \in Addrs, c \in Channels :
        /\ SendRev(a, c) >= 2
        /\ RevRecv(<<r, a>>, c) = SendRev(a, c)
        /\ 1 \in SeenRevs(<<r, a>>, c)
        /\ lastOp = Op(1, "stale")

(* C36: a Replica's recvRevision for a channel advances to a patch's        *)
(* revision only if the channel exists there and the patch's data has been  *)
(* merged into it completely; otherwise recvRevision stays as it was.       *)
C36_AllOrNothing ==
    [][\A p \in Replicas, n \in 1..MaxWrites :
          (ReceiveAny(Host, p, n) /\ net[<<Host, p>>][n].t = "patch") =>
              LET msg == Unwire(net[<<Host, p>>][n])
                  i == <<p, msg.key>>
              IN  RevRecv(i, msg.chan)' # RevRecv(i, msg.chan) =>
                      /\ MapHas(stateObjs[i], msg.chan)
                      /\ AsMap(stateObjs'[i][msg.chan].kv)
                            = Merged(stateObjs[i][msg.chan].kv, msg.data)]_vars

(* C37: every descriptor collectMethodMeta returns for an instance of a     *)
(* class was declared by a class of that instance's prototype chain, and so *)
(* was the original of every handler bound for a registered instance.       *)
ChainClasses(cls) == {PrototypeChain(cls)[j] : j \in 1..Len(PrototypeChain(cls))}
C37_OnlyOwnChain ==
    /\ \A cls \in Defined :
          \A j \in 1..Len(collectMethodMetaOf(classMeta, cls)) :
              collectMethodMetaOf(classMeta, cls)[j].original[1] \in ChainClasses(cls)
    /\ \A a \in DOMAIN classMeta.inst :
          \A key \in DOMAIN handlers[Host] :
              key[1] = a => handlers[Host][key].original[1] \in ChainClasses(classMeta.inst[a])

(* The position of the envelope of call j in a queue, 0 if it is not there. *)
PositionOf(q, j) ==
    IF \E n \in 1..Len(q) : q[n].id = j THEN CHOOSE n \in 1..Len(q) : q[n].id = j ELSE 0

C39_AuthorityUnchangedByPatch ==
    [][\A from \in Peers :
          (/\ Len(net[<<from, Host>>]) > 0
           /\ net[<<from, Host>>][1].t = "patch"
           /\ MapHas(stateObjs[<<Host, net[<<from, Host>>][1].key>>],
                     net[<<from, Host>>][1].chan)
           /\ Receive(from, Host)) =>
              \A a \in Addrs :
                  /\ stateObjs'[<<Host, a>>] = stateObjs[<<Host, a>>]
                  /\ revSend'[<<Host, a>>] = revSend[<<Host, a>>]
                  /\ lastSynced'[<<Host, a>>] = lastSynced[<<Host, a>>]]_vars

====
